---- MODULE Spec2Model ----
(***************************************************************************)
(* A model of the frame codec and the read/write state machine of the      *)
(* websocket package: websocket.go (header bits, length codec, masking),   *)
(* conn_read.go (the reader with the start cursor), the frame writer       *)
(* (WriteFrame, Close, CloseWriter, processPing) and the FakeConn of       *)
(* fuzz_test.go.  Bytes are the integers 0..255; a Go slice index k is the *)
(* sequence position k+1.                                                  *)
(***************************************************************************)
EXTENDS Integers, Sequences, FiniteSets, TLC

VARIABLES
    scn,    \* name of the scenario the behaviour belongs to
    cs,     \* the Conn objects of the scenario, by endpoint name
    tp,     \* the transports (FakeConn, or one record per direction)
    hs,     \* the scenario's script position, inputs and observations
    pc,     \* concurrency scenario: position of every goroutine
    mu,     \* concurrency scenario: holder of rmu and of wmu (0 = free)
    cc,     \* concurrency scenario: shared Conn flags and the transport log
    cx      \* cancellation scenario: context, watchers, deadline, call

vars == <<scn, cs, tp, hs, pc, mu, cc, cx>>

-----------------------------------------------------------------------------
(* websocket.go: constants *)

finbit == 128
opcodeMask == 15
masked == 128
len7Mask == 127
len16 == 126
len64 == 127
maxLen7 == 125
maxLen16 == 65535

FrameContinue == 0
FrameText == 1
FrameBinary == 2
FrameClose == 8
FramePing == 9
FramePong == 10

StatusOK == 1000

defaultReadBufSize == 4096
minReadBufSize == 32
directReadSlack == 16

(* A length of 2^30 or more: Go's int has 64 bits, the model's integers 32.  *)
(* -HugeLen stands for the negative int that a 64-bit length with the top   *)
(* bit set converts to.                                                     *)
HugeLen == 1073741824

-----------------------------------------------------------------------------
(* Errors.  Besides Go's error values, three outcomes of a call that is    *)
(* not an error value: the call blocks in the transport (ErrBlock), the    *)
(* call panics (ErrPanic), the call loops forever (ErrHang).               *)

ErrNil == <<"nil">>
ErrEOF == <<"EOF">>
ErrBlock == <<"block">>
ErrPanic == <<"panic">>
ErrHang == <<"hang">>
ErrInvalidFrame == <<"invalid frame">>
ErrWtfClose == <<"wtf close data">>
ErrTransport == <<"transport">>
ErrTransportClose == <<"transport close">>
ErrTimeout == <<"i/o timeout">>
ErrCanceled == <<"context canceled">>
ErrDeadlineExceeded == <<"context deadline exceeded">>
ErrReset == <<"connection reset by peer">>
ErrWriteClose == <<"write close frame">>
ErrStatus(st) == <<"status", st>>
ErrStatusText(st, text) == <<"statustext", st, text>>

Min(a, b) == IF a < b THEN a ELSE b
Max(a, b) == IF a > b THEN a ELSE b

(* The element of a singleton set.  Only({ e : x \in {v} }) is e with x     *)
(* standing for the value of v: the result of a call is computed once and   *)
(* named, as a Go local is.                                                 *)
Only(S) == CHOOSE v \in S : TRUE

-----------------------------------------------------------------------------
(* Bytes *)

(* Bit k of the exclusive or of two bytes, at its place value. *)
XorBit(a, b, w) == ((((a \div w) % 2) + ((b \div w) % 2)) % 2) * w

(* The exclusive or of two 4-bit numbers, as a table. *)
XorNibble ==
    [a \in 0..15 |-> [b \in 0..15 |->
        XorBit(a, b, 1) + XorBit(a, b, 2) + XorBit(a, b, 4) + XorBit(a, b, 8)]]

Xor(a, b) == (XorNibble[a \div 16][b \div 16] * 16) + XorNibble[a % 16][b % 16]

Take(q, n) == SubSeq(q, 1, n)
Drop(q, n) == SubSeq(q, n + 1, Len(q))

RECURSIVE Flatten(_)
Flatten(qs) == IF qs = <<>> THEN <<>> ELSE Head(qs) \o Flatten(Tail(qs))

BE16(n) == <<(n \div 256) % 256, n % 256>>
BE64(n) == <<0, 0, 0, 0, (n \div 16777216) % 256, (n \div 65536) % 256, (n \div 256) % 256, n % 256>>

maskBufNoPhase(p, key, off) == [j \in 1..Len(p) |-> Xor(p[j], key[((j - 1) % 4) + 1])]

maskBuf(p, key, off) == [j \in 1..Len(p) |-> Xor(p[j], key[((off + (j - 1)) % 4) + 1])]

-----------------------------------------------------------------------------
(* HeaderBits *)

Fin(h) == h[1] >= finbit
Opcode(h) == h[1] % 16
Masked(h) == h[2] >= masked
len7(h) == h[2] % 128

-----------------------------------------------------------------------------
(* The Conn struct.  rbuf is kept as its length rlen, its capacity rcap    *)
(* and the bytes rdata written so far; a byte never written is zero, as    *)
(* make() leaves it.                                                       *)

NewConn(client, rlen) ==
    [client |-> client, writerClosed |-> FALSE, readerClosed |-> FALSE,
     wbuf |-> <<>>, rlen |-> rlen, rcap |-> rlen, rdata |-> <<>>,
     st |-> 0, i |-> 0, end |-> 0, header |-> <<0, 0>>, key |-> <<0, 0, 0, 0>>,
     start |-> 0, more |-> 0]

RbGet(c, k) == IF k >= 0 /\ k < Len(c.rdata) THEN c.rdata[k + 1] ELSE 0

RbSlice(c, a, b) == [j \in 1..(b - a) |-> RbGet(c, a + j - 1)]

RbPut(c, at, bytes) ==
    [j \in 1..Max(Len(c.rdata), at + Len(bytes)) |->
        IF j > at /\ j <= at + Len(bytes) THEN bytes[j - at] ELSE RbGet(c, j - 1)]

-----------------------------------------------------------------------------
(* Transports.  FakeConn is the transport of fuzz_test.go.  A "net"         *)
(* transport is one endpoint of a stream connection: rx holds the chunks    *)
(* the peer's bytes arrive in, a Read returns bytes of the first chunk      *)
(* only, blocks while there is none, and reports EOF after the last one     *)
(* when the peer has closed (rxeof); tx logs the Writes of this endpoint;    *)
(* dl says that a read deadline in the past is set, which fails every Read  *)
(* with a timeout.  A Write on a failing (wfail) transport returns an error *)
(* and the count wn of bytes it took, at most len(p); a Close of a          *)
(* transport with cerr returns an error.                                    *)

NewFakeConn == [kind |-> "fake", b |-> <<>>, r |-> 0]

NewNet(rx, rxeof) ==
    [kind |-> "net", rx |-> rx, rxeof |-> rxeof, tx |-> <<>>,
     closed |-> FALSE, wfail |-> FALSE, wn |-> 0, cerr |-> FALSE, dl |-> FALSE]

FakeConnRead(t, room) ==
    LET n == Min(room, Len(t.b) - t.r)
        r2 == t.r + n
    IN  [n |-> n, data |-> SubSeq(t.b, t.r + 1, r2),
         err |-> IF r2 = Len(t.b) THEN ErrEOF ELSE ErrNil,
         t |-> [t EXCEPT !.r = r2]]

FakeConnWrite(t, p) == [n |-> Len(p), err |-> ErrNil, t |-> [t EXCEPT !.b = @ \o p]]

FakeConnClose(t) == [t EXCEPT !.b = <<>>, !.r = 0]

NetRead(t, room) ==
    IF t.dl THEN [n |-> 0, data |-> <<>>, err |-> ErrTimeout, t |-> t]
    ELSE IF t.rx = <<>>
    THEN [n |-> 0, data |-> <<>>, err |-> IF t.rxeof THEN ErrEOF ELSE ErrBlock, t |-> t]
    ELSE LET ch == Head(t.rx)
             n == Min(room, Len(ch))
         IN  [n |-> n, data |-> Take(ch, n), err |-> ErrNil,
              t |-> [t EXCEPT !.rx = IF n = Len(ch) THEN Tail(t.rx)
                                     ELSE <<Drop(ch, n)>> \o Tail(t.rx)]]

NetWrite(t, p) ==
    IF t.closed THEN [n |-> 0, err |-> ErrTransport, t |-> t]
    ELSE IF t.wfail THEN [n |-> Min(t.wn, Len(p)), err |-> ErrTransport, t |-> t]
    ELSE [n |-> Len(p), err |-> ErrNil, t |-> [t EXCEPT !.tx = Append(@, p)]]

ConnRead(t, room) == IF t.kind = "fake" THEN FakeConnRead(t, room) ELSE NetRead(t, room)

ConnWrite(t, p) == IF t.kind = "fake" THEN FakeConnWrite(t, p) ELSE NetWrite(t, p)

ConnClose(t) == IF t.kind = "fake" THEN FakeConnClose(t) ELSE [t EXCEPT !.closed = TRUE]

(* The error c.Conn.Close() returns. *)
ConnCloseErr(t) == IF t.kind = "net" /\ t.cerr THEN ErrTransportClose ELSE ErrNil

-----------------------------------------------------------------------------
(* websocket.go: ParseLen, ReadMaskingKey; conn_read.go: parseFrameHeader   *)

(* A decoder that refuses a length carried in a longer form than it needs. *)
ParseLenMinimalOnly(h, c, blen, st) ==
    LET l == len7(h)
        v16 == (RbGet(c, st) * 256) + RbGet(c, st + 1)
        v64 == ((((((RbGet(c, st + 4) * 256) + RbGet(c, st + 5)) * 256) + RbGet(c, st + 6)) * 256)
                + RbGet(c, st + 7))
    IN
    IF l <= maxLen7 THEN [l |-> l, i |-> st]
    ELSE IF l = len16 THEN
        IF st + 2 > blen \/ v16 <= maxLen7 THEN [l |-> l, i |-> -1]
        ELSE [l |-> v16, i |-> st + 2]
    ELSE
        IF st + 8 > blen \/ v64 <= maxLen16 THEN [l |-> l, i |-> -1]
        ELSE [l |-> v64, i |-> st + 8]

(* ParseLen(b, st): blen is len(b).  i = -1 is "need more". *)
ParseLen(h, c, blen, st) ==
    LET l == len7(h) IN
    IF l <= maxLen7 THEN [l |-> l, i |-> st]
    ELSE IF l = len16 THEN
        IF st + 2 > blen THEN [l |-> l, i |-> -1]
        ELSE [l |-> (RbGet(c, st) * 256) + RbGet(c, st + 1), i |-> st + 2]
    ELSE
        IF st + 8 > blen THEN [l |-> l, i |-> -1]
        ELSE LET hi == RbSlice(c, st, st + 4)
                 b4 == RbGet(c, st + 4)
             IN  [l |-> IF hi[1] >= 128 THEN -HugeLen
                        ELSE IF hi # <<0, 0, 0, 0>> \/ b4 >= 64 THEN HugeLen
                        ELSE ((((((b4 * 256) + RbGet(c, st + 5)) * 256) + RbGet(c, st + 6)) * 256)
                              + RbGet(c, st + 7)),
                  i |-> st + 8]

(* ReadMaskingKey(b, st, key): blen is len(b). *)
ReadMaskingKey(c, blen, st) ==
    IF st + 4 > blen THEN [i |-> -1, key |-> c.key]
    ELSE [i |-> st + 4, key |-> RbSlice(c, st, st + 4)]

(* parseFrameHeader(c.rbuf[:c.end], st, c.key[:]): the base header and the *)
(* key are read from b = rbuf[:end], the length from the whole of c.rbuf.  *)
parseFrameHeader(c, st) ==
    IF st + 2 > c.end THEN [h |-> <<0, 0>>, l |-> 0, i |-> -1, key |-> c.key]
    ELSE Only({
         Only({
             IF pl.i < 0 THEN [h |-> h, l |-> 0, i |-> -1, key |-> c.key]
             ELSE IF Masked(h) THEN
                 Only({ IF mk.i < 0 THEN [h |-> h, l |-> 0, i |-> -1, key |-> c.key]
                        ELSE [h |-> h, l |-> pl.l, i |-> mk.i, key |-> mk.key] :
                        mk \in {ReadMaskingKey(c, c.end, pl.i)} })
             ELSE [h |-> h, l |-> pl.l, i |-> pl.i, key |-> c.key] :
             pl \in {ParseLen(h, c, c.rlen, st + 2)} }) :
         h \in {<<RbGet(c, st), RbGet(c, st + 1)>>} })

-----------------------------------------------------------------------------
(* conn_read.go: read *)

compactNoCopy(c) ==
    LET off == c.i IN
    [c EXCEPT !.st = @ - off, !.i = @ - off, !.end = @ - off, !.start = @ - off]

(* compact without the shift of start. *)
compactKeepStart(c) ==
    LET off == c.i IN
    [c EXCEPT !.rdata = IF off < c.end THEN RbPut(c, 0, RbSlice(c, off, c.end)) ELSE @,
              !.st = @ - off, !.i = @ - off, !.end = @ - off]

compact(c) ==
    LET off == c.i IN
    [c EXCEPT !.rdata = IF off < c.end THEN RbPut(c, 0, RbSlice(c, off, c.end)) ELSE @,
              !.st = @ - off, !.i = @ - off, !.end = @ - off, !.start = @ - off]

makeRbuf(c) ==
    IF c.rlen < minReadBufSize
    THEN [c EXCEPT !.rlen = defaultReadBufSize, !.rcap = defaultReadBufSize, !.rdata = <<>>]
    ELSE c

compactIfHalf(c) == IF c.i >= c.end \div 2 THEN compact(c) ELSE c

clampEnd(c) == IF c.end < 0 THEN [c EXCEPT !.end = 0] ELSE c

read(s) ==
    Only({
        IF c3.end >= c3.rlen
        THEN [s |-> [s EXCEPT !.c = c3], n |-> 0, err |-> ErrPanic]
        ELSE Only({ [s |-> [c |-> [c3 EXCEPT !.rdata = RbPut(c3, c3.end, r.data),
                                             !.end = @ + r.n],
                            t |-> r.t],
                     n |-> r.n, err |-> r.err] :
                    r \in {ConnRead(s.t, c3.rlen - c3.end)} }) :
        c3 \in {clampEnd(compactIfHalf(makeRbuf(s.c)))} })

-----------------------------------------------------------------------------
(* conn_read.go: readFrameHeader *)

RECURSIVE readFrameHeaderLoop(_)
readFrameHeaderLoop(s) ==
    IF s.c.st < 0
    THEN [s |-> s, op |-> 0, fin |-> FALSE, l |-> 0, err |-> ErrPanic]
    ELSE
    Only({
        IF ph.i > 0
        THEN [s |-> [s EXCEPT !.c.header = ph.h, !.c.key = ph.key, !.c.start = ph.i,
                              !.c.more = ph.l, !.c.i = ph.i],
              op |-> Opcode(ph.h), fin |-> Fin(ph.h), l |-> ph.l, err |-> ErrNil]
        ELSE Only({ IF r.n # 0 /\ r.err = ErrEOF THEN readFrameHeaderLoop(r.s)
                    ELSE IF r.err # ErrNil
                    THEN [s |-> r.s, op |-> 0, fin |-> FALSE, l |-> ph.l, err |-> r.err]
                    ELSE readFrameHeaderLoop(r.s) :
                    r \in {read(s)} }) :
        ph \in {parseFrameHeader(s.c, s.c.st)} })

readFrameHeader(s) ==
    IF s.c.readerClosed
    THEN [s |-> s, op |-> 0, fin |-> TRUE, l |-> 0, err |-> ErrEOF]
    ELSE LET i1 == IF s.c.more # 0 THEN s.c.i + s.c.more ELSE s.c.i IN
         readFrameHeaderLoop([s EXCEPT !.c.i = i1, !.c.st = i1])

-----------------------------------------------------------------------------
(* conn_read.go: appendFrame.  p is the content of p[:n]; alias says that   *)
(* p shares its array with c.rbuf (the call of processClose), so that what  *)
(* is stored in p[n:] is stored in rbuf, and what read() does to rbuf is    *)
(* done to p.                                                               *)

store(s, n, d, alias) == IF alias THEN [s EXCEPT !.c.rdata = RbPut(s.c, n, d)] ELSE s

advanceNoI(s, m) == [s EXCEPT !.c.more = @ - m]

advanceKeepMore(s, m) == [s EXCEPT !.c.i = @ + m]

advance(s, m) == [s EXCEPT !.c.i = @ + m, !.c.more = @ - m]

result(s, p, alias) == IF alias THEN RbSlice(s.c, 0, Len(p)) ELSE p

RECURSIVE appendFrameLoop(_, _, _, _)
appendFrameLoop(s, p, more, alias) ==
    IF more = 0
    THEN [s |-> s, p |-> result(s, p, alias),
          err |-> IF s.c.more = 0 THEN ErrEOF ELSE ErrNil]
    ELSE IF s.c.i < s.c.end
    THEN Only({ appendFrameLoop(advance(store(s, Len(p), d, alias), Len(d)),
                                p \o d, more - Len(d), alias) :
                d \in {maskBuf(RbSlice(s.c, s.c.i, Min(s.c.end, s.c.i + more)),
                               s.c.key, s.c.i - s.c.start)} })
    ELSE IF more >= s.c.rlen - directReadSlack
    THEN Only({ IF r.err # ErrNil /\ r.err # ErrEOF
                THEN [s |-> s, p |-> result(s, p, alias), err |-> r.err]
                ELSE IF r.n = 0
                THEN [s |-> s, p |-> result(s, p, alias), err |-> ErrHang]
                ELSE Only({ appendFrameLoop(
                                advance(store([s EXCEPT !.t = r.t], Len(p), d, alias), r.n),
                                p \o d, more - r.n, alias) :
                            d \in {maskBuf(r.data, s.c.key, s.c.i - s.c.start)} }) :
                r \in {ConnRead(s.t, more)} })
    ELSE Only({ IF (r.err # ErrNil /\ r.err # ErrEOF) \/ r.n = 0
                THEN [s |-> r.s, p |-> result(r.s, p, alias), err |-> r.err]
                ELSE appendFrameLoop(r.s, p, more, alias) :
                r \in {read(s)} })

(* slices.Grow panics for a negative count. *)
appendFrame(s, p, more, alias) ==
    IF s.c.more = 0 THEN [s |-> s, p |-> p, err |-> ErrEOF]
    ELSE IF Min(more, s.c.more) < 0 THEN [s |-> s, p |-> p, err |-> ErrPanic]
    ELSE appendFrameLoop(s, p, Min(more, s.c.more), alias)

readFrame(s, plen) == appendFrame(s, <<>>, plen, FALSE)

-----------------------------------------------------------------------------
(* processPing (with the wmu critical section left to the concurrency      *)
(* scenario): the opcode nibble is rewritten in place and                  *)
(* rbuf[st : i+more] is written to the transport.                          *)

setPongOpcode(c) ==
    [c EXCEPT !.rdata = RbPut(c, c.st, <<((RbGet(c, c.st) \div 16) * 16) + FramePong>>)]

processPing(s) ==
    LET c == s.c
        hi == c.i + c.more
    IN  IF c.st < 0 \/ c.st >= c.rlen \/ hi > c.rcap \/ c.st > hi
        THEN [s |-> s, err |-> ErrPanic]
        ELSE Only({ Only({ [s |-> [c |-> c1, t |-> w.t], err |-> w.err] :
                           w \in {ConnWrite(s.t, RbSlice(c1, c1.st, hi))} }) :
                    c1 \in {setPongOpcode(c)} })

-----------------------------------------------------------------------------
(* conn_read.go: processClose *)

(* The tail of processClose: r is what appendFrame returned, c1 the Conn     *)
(* after c.rbuf was assigned its result.                                    *)
closeStatus(r, c1, size) ==
    LET s1 == [r.s EXCEPT !.c = c1]
        at == c1.end
        rest == c1.rlen - at
        status == (RbGet(c1, at) * 256) + RbGet(c1, at + 1)
    IN  IF r.err # ErrNil /\ r.err # ErrEOF THEN [s |-> s1, err |-> r.err]
        ELSE IF rest < 2 THEN [s |-> s1, err |-> ErrPanic]
        ELSE IF rest = 2
        THEN [s |-> s1, err |-> IF status = StatusOK THEN ErrEOF ELSE ErrStatus(status)]
        ELSE IF at + size > c1.rcap THEN [s |-> s1, err |-> ErrPanic]
        ELSE [s |-> s1, err |-> ErrStatusText(status, RbSlice(c1, at + 2, at + size))]

processClose(s0) ==
    LET s == [s0 EXCEPT !.c.readerClosed = TRUE]
        c == s.c
    IN  IF c.more = 0 THEN [s |-> s, err |-> ErrEOF]
        ELSE IF c.more = 1
        THEN [s |-> s, err |-> IF c.i >= c.rlen THEN ErrPanic ELSE ErrWtfClose]
        ELSE LET size == Min(c.more, 128)
                 alias == c.rcap - c.end >= size
             IN  Only({ Only({ closeStatus(r, c1, size) :
                               c1 \in {[r.s.c EXCEPT !.rlen = Len(r.p),
                                                     !.rcap = IF alias THEN @ ELSE c.end + size,
                                                     !.rdata = IF alias THEN @ ELSE r.p]} }) :
                        r \in {appendFrame(s, RbSlice(c, 0, c.end), size, alias)} })

-----------------------------------------------------------------------------
(* conn_read.go: readDataFrameHeader, Read, ReadFrame, ReadFrameHeader      *)

RECURSIVE readDataFrameHeader(_)
readDataFrameHeader(s) ==
    Only({
        IF r.err # ErrNil THEN r
        ELSE IF r.op \in {FrameContinue, FrameText, FrameBinary} THEN r
        ELSE IF r.op = FramePing
        THEN Only({ IF pp.err # ErrNil
                    THEN [s |-> pp.s, op |-> r.op, fin |-> FALSE, l |-> 0, err |-> pp.err]
                    ELSE readDataFrameHeader(pp.s) :
                    pp \in {processPing(r.s)} })
        ELSE IF r.op = FramePong THEN readDataFrameHeader(r.s)
        ELSE IF r.op = FrameClose
        THEN Only({ [s |-> pcl.s, op |-> r.op, fin |-> FALSE, l |-> 0, err |-> pcl.err] :
                    pcl \in {processClose(r.s)} })
        ELSE [s |-> r.s, op |-> r.op, fin |-> FALSE, l |-> 0, err |-> ErrInvalidFrame] :
        r \in {readFrameHeader(s)} })

eofToNil(err) == IF err = ErrEOF THEN ErrNil ELSE err

readResult(r, err) == [s |-> r.s, n |-> Len(r.p), data |-> r.p, err |-> err]

Read(s, plen) ==
    Only({
        IF h.err # ErrNil THEN [s |-> h.s, n |-> 0, data |-> <<>>, err |-> h.err]
        ELSE Only({ readResult(r, eofToNil(r.err)) : r \in {readFrame(h.s, plen)} }) :
        h \in {IF s.c.more # 0 THEN [s |-> s, err |-> ErrNil] ELSE readDataFrameHeader(s)} })

ReadFrame(s, plen) == Only({ readResult(r, r.err) : r \in {readFrame(s, plen)} })

AppendReadFrame(s) == Only({ readResult(r, r.err) : r \in {appendFrame(s, <<>>, s.c.more, FALSE)} })

ReadFrameHeader(s) == readDataFrameHeader(s)

ReadRawFrameHeader(s) == readFrameHeader(s)

-----------------------------------------------------------------------------
(* The frame writer: writeFrame, Write, Close, closeWriter.  rnd is the    *)
(* 4 bytes rand.Read draws for a client.                                   *)

len7FieldLoose(n) == IF n < maxLen7 THEN n ELSE IF n <= maxLen16 THEN len16 ELSE len64

len7Field(n) == IF n <= maxLen7 THEN n ELSE IF n <= maxLen16 THEN len16 ELSE len64

writeFrameHeader(n, op, final, client) ==
    LET l7 == len7Field(n)
        finb == IF final THEN finbit ELSE 0
    IN  <<(op % 16) + finb, (client * masked) + l7>>
        \o (IF l7 = len16 THEN BE16(n) ELSE IF l7 = len64 THEN BE64(n) ELSE <<>>)


writeFrameKey(client, rnd) == IF client # 0 THEN rnd ELSE <<>>

writeFrameBytes(wbuf, p, op, final, client, rnd) ==
    Only({ [payload |-> Len(hdr),
            b |-> hdr \o (IF client # 0
                          THEN maskBuf(p, SubSeq(hdr, Len(hdr) - 3, Len(hdr)), 0)
                          ELSE p)] :
           hdr \in {wbuf \o writeFrameHeader(Len(p), op, final, client)
                         \o writeFrameKey(client, rnd)} })

(* The count writeFrame returns for the transport's count n and error. *)
payloadCountNoClamp(n, payload, err) == n - payload

payloadCount(n, payload, err) ==
    IF err # ErrNil /\ n - payload < 0 THEN 0 ELSE n - payload

(* The caller's slice p as writeFrame leaves it: append copies p behind the  *)
(* header in the write buffer and maskBuf masks that copy.                  *)
writeFrameCaller(p, client, rnd) ==
    Only({ mem.p :
           mem \in {[p |-> p, b |-> writeFrameBytes(<<>>, p, FrameBinary, TRUE, client, rnd).b]} })

writeFrameKeepWbuf(s, p, op, final, rnd) ==
    Only({ Only({ [s |-> [c |-> [s.c EXCEPT !.wbuf = f.b], t |-> w.t],
                   n |-> payloadCount(w.n, f.payload, w.err),
                   err |-> w.err] :
                  w \in {ConnWrite(s.t, f.b)} }) :
           f \in {writeFrameBytes(s.c.wbuf, p, op, final, s.c.client, rnd)} })

writeFrame(s, p, op, final, rnd) ==
    Only({ Only({ [s |-> [c |-> [s.c EXCEPT !.wbuf = <<>>], t |-> w.t],
                   n |-> payloadCount(w.n, f.payload, w.err),
                   err |-> w.err] :
                  w \in {ConnWrite(s.t, f.b)} }) :
           f \in {writeFrameBytes(s.c.wbuf, p, op, final, s.c.client, rnd)} })

WriteFrame(s, p, op, final, rnd) == writeFrame(s, p, op, final, rnd)

Write(s, p, rnd) == WriteFrame(s, p, FrameBinary, TRUE, rnd)

(* Close.  did lists the transport calls it made. *)
CloseKeepTransport(s) ==
    IF s.c.writerClosed THEN [s |-> s, err |-> ErrNil, did |-> <<>>]
    ELSE LET wb == s.c.wbuf \o <<FrameClose + finbit, s.c.client * masked>> IN
         Only({ [s |-> [c |-> [s.c EXCEPT !.writerClosed = TRUE, !.wbuf = wb],
                        t |-> ConnClose(w.t)],
                 err |-> IF w.err # ErrNil THEN ErrWriteClose ELSE ConnCloseErr(w.t),
                 did |-> <<"Write", "Close">>] :
                w \in {ConnWrite(s.t, Take(wb, 2))} })

Close(s) ==
    IF s.c.writerClosed
    THEN [s |-> [s EXCEPT !.t = ConnClose(s.t)], err |-> ConnCloseErr(s.t), did |-> <<"Close">>]
    ELSE LET wb == s.c.wbuf \o <<FrameClose + finbit, s.c.client * masked>> IN
         Only({ [s |-> [c |-> [s.c EXCEPT !.writerClosed = TRUE, !.wbuf = wb],
                        t |-> ConnClose(w.t)],
                 err |-> IF w.err # ErrNil THEN ErrWriteClose ELSE ConnCloseErr(w.t),
                 did |-> <<"Write", "Close">>] :
                w \in {ConnWrite(s.t, Take(wb, 2))} })

(* closeWriter: the status it sends. *)
closeWriterStatusRaw(status) == status

closeWriterStatus(status) == IF status = 0 THEN 1000 ELSE status

closeWriter(s, status, rnd) ==
    IF s.c.writerClosed THEN [s |-> s, err |-> ErrNil]
    ELSE Only({ [s |-> w.s, err |-> w.err] :
                w \in {writeFrame([s EXCEPT !.c.writerClosed = TRUE],
                                  BE16(closeWriterStatus(status)),
                                  FrameClose, TRUE, rnd)} })

CloseWriter(s, status, rnd) == closeWriter(s, status, rnd)

-----------------------------------------------------------------------------
(* Scenario "fuzz": FuzzWriteRead of fuzz_test.go.  A server-role writer   *)
(* and a reader with a read buffer of cbuf bytes share one FakeConn; the   *)
(* three messages are written, one Read of at most chunk bytes follows     *)
(* each Write, and Reads follow until one returns io.EOF.                  *)

RbufSpan == 2
MaxMsgLen == 130
MaxChunk == 40

FuzzCbufs == minReadBufSize..(minReadBufSize + RbufSpan)
FuzzChunks == {1, 7, directReadSlack, directReadSlack + 1, MaxChunk}
FuzzLens == {0, 1, 29, 30, MaxMsgLen}

(* Message k of n bytes (the concatenation makes it an explicit sequence). *)
Msg(k, n) == <<>> \o [j \in 1..n |-> ((64 * k) + j) % 256]

FuzzAll(lens) == Msg(1, lens[1]) \o Msg(2, lens[2]) \o Msg(3, lens[3])

FuzzToLen(lens) == lens[1] + lens[2] + lens[3] + 256

IsPrefix(a, b) == Len(a) <= Len(b) /\ a = Take(b, Len(a))

Unused == <<>>

InitFuzz ==
    /\ scn = "fuzz"
    /\ \E cbuf \in FuzzCbufs, chunk \in FuzzChunks, l1 \in FuzzLens, l2 \in FuzzLens, l3 \in FuzzLens :
          hs = [cbuf |-> cbuf, chunk |-> chunk, lens |-> <<l1, l2, l3>>, pc |-> "write",
                k |-> 1, got |-> <<>>, bad |-> FALSE, compacted |-> FALSE, direct |-> FALSE]
    /\ cs = [w |-> NewConn(0, 0), r |-> NewConn(0, hs.cbuf)]
    /\ tp = NewFakeConn
    /\ pc = Unused /\ mu = Unused /\ cc = Unused /\ cx = Unused

FuzzWrite ==
    /\ scn = "fuzz" /\ hs.pc = "write"
    /\ \E w \in {Write([c |-> cs.w, t |-> tp], Msg(hs.k, hs.lens[hs.k]), <<0, 0, 0, 0>>)} :
       /\ cs' = [cs EXCEPT !.w = w.s.c]
       /\ tp' = w.s.t
       /\ hs' = [hs EXCEPT !.pc = "read",
                           !.bad = @ \/ w.err # ErrNil \/ w.n # hs.lens[hs.k]]
    /\ UNCHANGED <<scn, pc, mu, cc, cx>>

FuzzReadStep(drain) ==
    \E r \in {Read([c |-> cs.r, t |-> tp],
                   Min(hs.chunk, FuzzToLen(hs.lens) - Len(hs.got)))} :
        /\ cs' = [cs EXCEPT !.r = r.s.c]
        /\ tp' = r.s.t
        /\ hs' = [hs EXCEPT !.got = @ \o r.data,
                            !.bad = @ \/ (r.err # ErrNil /\ r.err # ErrEOF),
                            !.compacted = @ \/ r.s.c.start < 0,
                            !.direct = @ \/ r.s.c.i > r.s.c.end,
                            !.k = IF ~drain /\ hs.k < 3 THEN @ + 1 ELSE @,
                            !.pc = IF drain
                                   THEN (IF r.err # ErrNil THEN "close" ELSE "drain")
                                   ELSE (IF hs.k < 3 THEN "write" ELSE "drain")]

FuzzRead ==
    /\ scn = "fuzz" /\ hs.pc = "read"
    /\ FuzzReadStep(FALSE)
    /\ UNCHANGED <<scn, pc, mu, cc, cx>>

FuzzDrain ==
    /\ scn = "fuzz" /\ hs.pc = "drain"
    /\ FuzzReadStep(TRUE)
    /\ UNCHANGED <<scn, pc, mu, cc, cx>>

FuzzClose ==
    /\ scn = "fuzz" /\ hs.pc = "close"
    /\ \E a \in {Close([c |-> cs.w, t |-> tp])} :
       \E b \in {Close([c |-> cs.r, t |-> a.s.t])} :
           /\ cs' = [w |-> a.s.c, r |-> b.s.c]
           /\ tp' = b.s.t
           /\ hs' = [hs EXCEPT !.pc = "done", !.bad = @ \/ a.err # ErrNil \/ b.err # ErrNil]
    /\ UNCHANGED <<scn, pc, mu, cc, cx>>

NextFuzz == FuzzWrite \/ FuzzRead \/ FuzzDrain \/ FuzzClose

SpecFuzz == InitFuzz /\ [][NextFuzz]_vars

(* C1: in the fuzz harness, for every read-buffer size and chunk size, the *)
(* bytes the Reads return are, in call order, a prefix of m0 m1 m2 and,    *)
(* once a Read has returned end-of-stream, exactly m0 m1 m2; no Read       *)
(* returns an error other than end-of-stream.                              *)
C1_FuzzRoundTrip ==
    scn = "fuzz" =>
        /\ ~hs.bad
        /\ IsPrefix(hs.got, FuzzAll(hs.lens))
        /\ (hs.pc \in {"close", "done"} => hs.got = FuzzAll(hs.lens))

C1_Witness ==
    /\ scn = "fuzz" /\ hs.pc = "done" /\ hs.got = FuzzAll(hs.lens)
    /\ hs.lens[1] = 29 /\ hs.lens[2] = MaxMsgLen /\ hs.lens[3] = 30
    /\ hs.cbuf = minReadBufSize /\ hs.compacted /\ hs.direct

-----------------------------------------------------------------------------
(* Scenario "pair": a writer Conn and a reader Conn of the opposite role    *)
(* joined by a stream transport that delivers every Write as one chunk.     *)
(* The writer sends one message as fragments with WriteFrame (Text, then    *)
(* Continuation, FIN on the last); the reader calls Read with buffers of    *)
(* varying size.  dir = "c2s": masked client frames read by a server.       *)

MaxFrags == 2
PairBigLen == 130

PairLens == {0, 1, 5, PairBigLen}
PairChunks == {7, directReadSlack + 4}
PairRbufs == {0, minReadBufSize}
Keys == {<<1, 2, 4, 8>>, <<255, 16, 32, 64>>}
NoKey == <<0, 0, 0, 0>>

RECURSIVE Plain(_, _)
Plain(lens, k) ==
    IF k > Len(lens) THEN <<>> ELSE Msg(k, lens[k]) \o Plain(lens, k + 1)

InitPair ==
    /\ scn = "pair"
    /\ \E dir \in {"c2s", "s2c"}, rl \in PairRbufs :
          /\ hs = [dir |-> dir, lens |-> <<>>, keys |-> <<>>, final |-> FALSE,
                   sent |-> <<>>, got |-> <<>>, bad |-> FALSE,
                   split |-> FALSE, shifted |-> FALSE]
          /\ cs = [wr |-> NewConn(IF dir = "c2s" THEN 1 ELSE 0, 0),
                   rd |-> NewConn(IF dir = "c2s" THEN 0 ELSE 1, rl)]
    /\ tp = [wr |-> NewNet(<<>>, FALSE), rd |-> NewNet(<<>>, FALSE)]
    /\ pc = Unused /\ mu = Unused /\ cc = Unused /\ cx = Unused

PairWriteFrame ==
    /\ scn = "pair" /\ ~hs.final /\ Len(hs.lens) < MaxFrags
    /\ \E n \in PairLens, final \in BOOLEAN,
          key \in (IF hs.dir = "c2s" THEN Keys ELSE {NoKey}) :
          LET p == Msg(Len(hs.lens) + 1, n)
              op == IF hs.lens = <<>> THEN FrameText ELSE FrameContinue
          IN  \E w \in {WriteFrame([c |-> cs.wr, t |-> tp.wr], p, op, final, key)} :
              /\ cs' = [cs EXCEPT !.wr = w.s.c]
              /\ tp' = [wr |-> w.s.t,
                        rd |-> [tp.rd EXCEPT !.rx = @ \o SubSeq(w.s.t.tx, Len(tp.wr.tx) + 1,
                                                                Len(w.s.t.tx))]]
              /\ hs' = [hs EXCEPT !.lens = Append(@, n), !.keys = Append(@, key),
                                  !.final = final, !.sent = @ \o p,
                                  !.bad = @ \/ w.err # ErrNil \/ w.n # n]
    /\ UNCHANGED <<scn, pc, mu, cc, cx>>

PairRead ==
    /\ scn = "pair"
    /\ \E plen \in PairChunks :
          \E r \in {Read([c |-> cs.rd, t |-> tp.rd], plen)} :
          /\ r.err # ErrBlock
          /\ cs' = [cs EXCEPT !.rd = r.s.c]
          /\ tp' = [tp EXCEPT !.rd = r.s.t]
          /\ hs' = [hs EXCEPT !.got = @ \o r.data,
                              !.bad = @ \/ r.err # ErrNil,
                              !.split = @ \/ (r.n > 0 /\ r.s.c.more > 0),
                              !.shifted = @ \/ (cs.rd.more > 0 /\ r.n > 0 /\ r.s.c.start < 0)]
    /\ UNCHANGED <<scn, pc, mu, cc, cx>>

NextPair == PairWriteFrame \/ PairRead

SpecPair == InitPair /\ [][NextPair]_vars

PairDrained == Read([c |-> cs.rd, t |-> tp.rd], 1).err = ErrBlock

C3_MaskIndependence ==
    (scn = "pair" /\ hs.dir = "c2s") =>
        hs.got = Take(Plain(hs.lens, 1), Len(hs.got))

C3_Witness ==
    /\ scn = "pair" /\ hs.dir = "c2s"
    /\ Len(hs.lens) >= 2 /\ hs.lens[1] = PairBigLen /\ hs.lens[2] = 5
    /\ hs.keys[1] # hs.keys[2]
    /\ hs.split /\ hs.shifted
    /\ Len(hs.got) = PairBigLen + 5

-----------------------------------------------------------------------------
(* Scenarios "close" and "ping": a reader Conn is fed the frames of a peer  *)
(* of the opposite role (a client peer masks, a server peer does not), and  *)
(* the transport splits their byte stream at up to MaxCuts places; the peer *)
(* then closes its side.  The harness calls Read until it returns an error. *)

MaxCuts == 2
WireChunks == {2, 8}
WireRbufs == {0, minReadBufSize}

RECURSIVE CutSets(_, _)
CutSets(n, k) ==
    IF k = 0 THEN {{}}
    ELSE LET prev == CutSets(n, k - 1) IN
         prev \cup {cset \cup {x} : cset \in prev, x \in 1..(n - 1)}

NextCut(cuts, from, n) ==
    LET later == {x \in cuts : x > from /\ x < n} IN
    IF later = {} THEN n ELSE CHOOSE x \in later : \A y \in later : x <= y

RECURSIVE SplitFrom(_, _, _)
SplitFrom(b, cuts, from) ==
    IF from >= Len(b) THEN <<>>
    ELSE LET nxt == NextCut(cuts, from, Len(b)) IN
         <<SubSeq(b, from + 1, nxt)>> \o SplitFrom(b, cuts, nxt)

Frame(op, final, payload) == [op |-> op, final |-> final, payload |-> payload]

(* The peer's encoding of a frame: client = 1 is a masking peer. *)
PeerFrame(f, client, key) == writeFrameBytes(<<>>, f.payload, f.op, f.final, client, key).b

RECURSIVE PeerWire(_, _, _)
PeerWire(frames, client, key) ==
    IF frames = <<>> THEN <<>>
    ELSE PeerFrame(Head(frames), client, key) \o PeerWire(Tail(frames), client, key)

(* What a receiver decodes from the bytes of one transport Write. *)
DecodeFrame(b) ==
    Only({ IF ph.i < 0 \/ ph.i + ph.l # Len(b)
           THEN [ok |-> FALSE, op |-> 0, final |-> FALSE, masked |-> FALSE,
                 payload |-> <<>>]
           ELSE [ok |-> TRUE, op |-> Opcode(ph.h), final |-> Fin(ph.h),
                 masked |-> Masked(ph.h),
                 payload |-> IF Masked(ph.h) THEN maskBuf(Drop(b, ph.i), ph.key, 0)
                             ELSE Drop(b, ph.i)] :
           ph \in {parseFrameHeader([NewConn(0, Len(b)) EXCEPT !.rdata = b, !.end = Len(b)], 0)} })

Abc == <<97, 98, 99>>
De == <<100, 101>>
By == <<98, 121>>

ClosePayloads ==
    {<<>>, <<3>>, BE16(StatusOK), BE16(1001), BE16(1001) \o By, BE16(StatusOK) \o By}

PingPayloads == {<<>>, <<1, 2>>, <<1, 2, 3, 4, 5>>}

InitWire(name, frames, client) ==
    /\ scn = name
    /\ \E rl \in WireRbufs, key \in (IF client = 1 THEN {NoKey} ELSE Keys) :
          \E wire \in {PeerWire(frames, 1 - client, key)} :
          \E cuts \in CutSets(Len(wire), MaxCuts) :
             /\ hs = [client |-> client, frames |-> frames, key |-> key, wire |-> wire,
                      nchunks |-> Cardinality(cuts) + 1,
                      pc |-> "open", got |-> <<>>, err |-> ErrNil]
             /\ cs = [rd |-> NewConn(client, rl)]
             /\ tp = [rd |-> NewNet(SplitFrom(wire, cuts, 0), TRUE)]
    /\ pc = Unused /\ mu = Unused /\ cc = Unused /\ cx = Unused

WireRead ==
    /\ scn \in {"close", "ping"} /\ hs.pc = "open"
    /\ \E plen \in WireChunks :
          \E r \in {Read([c |-> cs.rd, t |-> tp.rd], plen)} :
          /\ cs' = [cs EXCEPT !.rd = r.s.c]
          /\ tp' = [tp EXCEPT !.rd = r.s.t]
          /\ hs' = [hs EXCEPT !.got = @ \o r.data, !.err = r.err,
                              !.pc = IF r.err # ErrNil THEN "closed" ELSE "open"]
    /\ UNCHANGED <<scn, pc, mu, cc, cx>>

NextWire == WireRead

InitClose ==
    \E client \in {0, 1}, pre \in {<<>>, <<Frame(FrameText, TRUE, Abc)>>}, cp \in ClosePayloads :
        InitWire("close", pre \o <<Frame(FrameClose, TRUE, cp)>>, client)

SpecClose == InitClose /\ [][NextWire]_vars

ClosePayload == hs.frames[Len(hs.frames)].payload

CloseExpected(cp) ==
    IF Len(cp) = 1 THEN ErrWtfClose
    ELSE IF cp = BE16(StatusOK) THEN ErrEOF
    ELSE IF Len(cp) = 2 THEN ErrStatus((cp[1] * 256) + cp[2])
    ELSE ErrStatusText((cp[1] * 256) + cp[2], Drop(cp, 2))

(* C4: a Close frame carrying exactly status 1000 ends the Reads with       *)
(* io.EOF; one carrying another status ends them with the typed close error *)
(* of that status (and reason); one with a 1-byte payload ends them with    *)
(* the malformed-close error: however the transport splits the bytes.       *)
C4_CloseSemantics ==
    (scn = "close" /\ hs.pc = "closed" /\ Len(ClosePayload) >= 1
        /\ ~(Len(ClosePayload) > 2 /\ Take(ClosePayload, 2) = BE16(StatusOK)))
    => hs.err = CloseExpected(ClosePayload)

(* The same for a Close frame that one transport read delivers whole. *)
C4_CloseSemanticsUnsplit ==
    hs.nchunks = 1 => C4_CloseSemantics

InitPing ==
    \E client \in {0, 1}, pp \in PingPayloads :
        InitWire("ping", <<Frame(FrameText, FALSE, Abc), Frame(FramePing, TRUE, pp),
                           Frame(FrameContinue, TRUE, De)>>, client)

SpecPing == InitPing /\ [][NextWire]_vars

PingPayload == hs.frames[2].payload

(* C5: with a Ping between two data frames, the Reads return the payloads  *)
(* of both data frames and nothing else, and the reader has written exactly *)
(* one frame, a Pong that decodes to the Ping's payload.                    *)
C5_PingTransparent ==
    (scn = "ping" /\ hs.pc = "closed") =>
        /\ hs.err = ErrEOF
        /\ hs.got = Abc \o De
        /\ Len(tp.rd.tx) = 1
        /\ DecodeFrame(tp.rd.tx[1]).ok
        /\ DecodeFrame(tp.rd.tx[1]).op = FramePong
        /\ DecodeFrame(tp.rd.tx[1]).payload = PingPayload

(* The same for a byte stream that one transport read delivers whole. *)
C5_PingTransparentUnsplit ==
    hs.nchunks = 1 => C5_PingTransparent

-----------------------------------------------------------------------------
(* Scenario "cancel": ReadContext on a transport that has SetReadDeadline.  *)
(* The deferred statement of ReadContext is the call of Stopper itself: its *)
(* arguments are evaluated when the defer statement runs, the call is made  *)
(* when ReadContext returns, and the stop function it returns is dropped.   *)
(* So the watcher goroutine of call k starts when call k returns, and       *)
(* nobody closes its donec.  Every call has a context of its own.           *)

MaxCalls == 3
MaxSends == 2

(* err.(interface{ Timeout() bool }): the error values whose type has the   *)
(* method (the transport's timeout and reset errors are *net.OpError, the   *)
(* context's deadline error has it too), and what the method returns.       *)
HasTimeout(err) == err \in {ErrTimeout, ErrReset, ErrDeadlineExceeded}
Timeout(err) == err \in {ErrTimeout, ErrDeadlineExceeded}

isTimeout(err) == HasTimeout(err) /\ Timeout(err)

(* FixError without the isTimeout test. *)
FixErrorAnyError(ctxErr, err) == IF ctxErr # ErrNil THEN ctxErr ELSE err

(* FixError(ctx, err).  ctxErr is ctx.Err(): ErrNil until ctx.Done() is      *)
(* closed, the context's cancellation error from then on.                   *)
FixError(ctxErr, err) == IF isTimeout(err) /\ ctxErr # ErrNil THEN ctxErr ELSE err

(* Stopper(ctx, dead): the state of the goroutine it starts. *)
Stopper == "select"

InitCancel ==
    /\ scn = "cancel"
    /\ cx = [call |-> 0, pc |-> "idle", ctx |-> [k \in 1..MaxCalls |-> "live"],
             watch |-> [k \in 1..MaxCalls |-> "none"], err |-> ErrNil, n |-> 0]
    /\ hs = [sends |-> 0]
    /\ cs = [rd |-> NewConn(1, 0)]
    /\ tp = [rd |-> NewNet(<<>>, FALSE)]
    /\ pc = Unused /\ mu = Unused /\ cc = Unused

(* ReadContext is called: the defer statement runs, c.Read is entered. *)
CancelCall ==
    /\ scn = "cancel" /\ cx.pc = "idle" /\ cx.call < MaxCalls
    /\ cx' = [cx EXCEPT !.call = @ + 1, !.pc = "read"]
    /\ UNCHANGED <<scn, cs, tp, hs, pc, mu, cc>>

(* c.Read returns (it does not while the transport read blocks); the error  *)
(* is fixed, and the deferred call of Stopper starts the watcher.           *)
CancelReturn ==
    /\ scn = "cancel" /\ cx.pc = "read"
    /\ \E r \in {Read([c |-> cs.rd, t |-> tp.rd], 4)} :
          /\ r.err # ErrBlock
          /\ cs' = [cs EXCEPT !.rd = r.s.c]
          /\ tp' = [tp EXCEPT !.rd = r.s.t]
          /\ cx' = [cx EXCEPT !.pc = "idle", !.n = r.n,
                              !.err = FixError(IF cx.ctx[cx.call] = "done" THEN ErrCanceled
                                               ELSE ErrNil, r.err),
                              !.watch[cx.call] = Stopper]
    /\ UNCHANGED <<scn, hs, pc, mu, cc>>

(* The caller cancels the context of a call it has made. *)
CtxCancel ==
    /\ scn = "cancel"
    /\ \E k \in 1..cx.call :
          /\ cx.ctx[k] = "live"
          /\ cx' = [cx EXCEPT !.ctx[k] = "done"]
    /\ UNCHANGED <<scn, cs, tp, hs, pc, mu, cc>>

(* The goroutine of Stopper: ctx.Done() is ready, donec is not closed, so   *)
(* dead(time.Unix(1, 0)) sets a read deadline in the past.                  *)
WatcherFire ==
    /\ scn = "cancel"
    /\ \E k \in 1..MaxCalls :
          /\ cx.watch[k] = "select" /\ cx.ctx[k] = "done"
          /\ cx' = [cx EXCEPT !.watch[k] = "fired"]
    /\ tp' = [tp EXCEPT !.rd.dl = TRUE]
    /\ UNCHANGED <<scn, cs, hs, pc, mu, cc>>

(* The peer, a server, sends a Binary frame. *)
CancelPeerSend ==
    /\ scn = "cancel" /\ hs.sends < MaxSends
    /\ hs' = [hs EXCEPT !.sends = @ + 1]
    /\ tp' = [tp EXCEPT !.rd.rx = Append(@, PeerFrame(Frame(FrameBinary, TRUE, Abc), 0, NoKey))]
    /\ UNCHANGED <<scn, cs, pc, mu, cc, cx>>

NextCancel == CancelCall \/ CancelReturn \/ CtxCancel \/ WatcherFire \/ CancelPeerSend

SpecCancel == InitCancel /\ [][NextCancel]_vars

(* The scheduler runs every goroutine that can run: a Read that can return  *)
(* returns, a watcher whose context is done runs.  Neither the peer nor     *)
(* the caller is obliged to act.                                            *)
SpecCancelFair == SpecCancel /\ WF_vars(CancelReturn) /\ WF_vars(WatcherFire)

CancelBlocked ==
    /\ scn = "cancel" /\ cx.pc = "read"
    /\ Read([c |-> cs.rd, t |-> tp.rd], 4).err = ErrBlock

(* C6: a ReadContext call blocked in the transport read whose context is   *)
(* cancelled returns.                                                      *)
C6_CancelUnblocks ==
    (CancelBlocked /\ cx.ctx[cx.call] = "done") ~> (cx.pc = "idle")

C6_Witness ==
    /\ CancelBlocked /\ cx.ctx[cx.call] = "done"
    /\ cx.watch[cx.call] = "none" /\ ~tp.rd.dl

-----------------------------------------------------------------------------
(* Scenario "egress": one Conn of either role puts frames on its transport  *)
(* through WriteFrame, Write, CloseWriter, Close and, from the read path,   *)
(* the Pong that answers a Ping of the peer.  hs.exp lists, per transport   *)
(* Write, the call it came from and the frame the call was to send.         *)

MaxEgress == 3

EgressPayloads == {<<>>, Abc, Msg(1, 5)}

RoleKeys(client) == IF client = 1 THEN Keys ELSE {NoKey}

InitEgress ==
    /\ scn = "egress"
    /\ \E client \in {0, 1} :
          /\ hs = [client |-> client, exp |-> <<>>]
          /\ cs = [c |-> NewConn(client, 0)]
    /\ tp = [c |-> NewNet(<<>>, FALSE)]
    /\ pc = Unused /\ mu = Unused /\ cc = Unused /\ cx = Unused

EgressDone(s1, via, op, payload) ==
    /\ cs' = [cs EXCEPT !.c = s1.c]
    /\ tp' = [tp EXCEPT !.c = s1.t]
    /\ hs' = [hs EXCEPT !.exp = IF Len(s1.t.tx) > Len(tp.c.tx)
                                THEN Append(@, [via |-> via, op |-> op, payload |-> payload])
                                ELSE @]
    /\ UNCHANGED <<scn, pc, mu, cc, cx>>

EgressWriteFrame ==
    /\ scn = "egress" /\ Len(tp.c.tx) < MaxEgress
    /\ \E p \in EgressPayloads, op \in {FrameText, FrameContinue}, final \in BOOLEAN,
          key \in RoleKeys(hs.client) :
          \E w \in {WriteFrame([c |-> cs.c, t |-> tp.c], p, op, final, key)} :
             EgressDone(w.s, "WriteFrame", op, p)

EgressWrite ==
    /\ scn = "egress" /\ Len(tp.c.tx) < MaxEgress
    /\ \E p \in EgressPayloads, key \in RoleKeys(hs.client) :
          \E w \in {Write([c |-> cs.c, t |-> tp.c], p, key)} :
             EgressDone(w.s, "Write", FrameBinary, p)

EgressCloseWriter ==
    /\ scn = "egress" /\ Len(tp.c.tx) < MaxEgress
    /\ \E status \in {0, 1001}, key \in RoleKeys(hs.client) :
          \E w \in {CloseWriter([c |-> cs.c, t |-> tp.c], status, key)} :
             EgressDone(w.s, "CloseWriter", FrameClose,
                        BE16(IF status = 0 THEN StatusOK ELSE status))

EgressClose ==
    /\ scn = "egress" /\ Len(tp.c.tx) < MaxEgress
    /\ \E w \in {Close([c |-> cs.c, t |-> tp.c])} :
          EgressDone(w.s, "Close", FrameClose, <<>>)

(* The peer's Ping and a Binary frame arrive in one piece; Read answers the *)
(* Ping and returns the Binary frame's payload.                             *)
EgressReadPing ==
    /\ scn = "egress" /\ Len(tp.c.tx) < MaxEgress /\ tp.c.rx = <<>> /\ cs.c.more = 0
    /\ \E pp \in PingPayloads, key \in RoleKeys(1 - hs.client) :
          \E r \in {Read([c |-> cs.c,
                          t |-> [tp.c EXCEPT !.rx = <<PeerWire(<<Frame(FramePing, TRUE, pp),
                                                                  Frame(FrameBinary, TRUE, De)>>,
                                                                1 - hs.client, key)>>]],
                         8)} :
             /\ r.err = ErrNil /\ r.data = De
             /\ EgressDone(r.s, "Pong", FramePong, pp)

NextEgress ==
    EgressWriteFrame \/ EgressWrite \/ EgressCloseWriter \/ EgressClose \/ EgressReadPing

SpecEgress == InitEgress /\ [][NextEgress]_vars

EgressFrameOk(k) ==
    \A d \in {DecodeFrame(tp.c.tx[k])} :
        /\ d.ok
        /\ d.masked = (hs.client = 1)
        /\ d.op = hs.exp[k].op
        /\ d.payload = hs.exp[k].payload

(* C7: every frame a client-role Conn writes has the MASK bit, a key and a  *)
(* payload masked with it, every frame a server-role Conn writes has no     *)
(* MASK bit and no key: through WriteFrame, Write, CloseWriter, Close and   *)
(* the echoed Pong.                                                         *)
C7_EgressMasking ==
    scn = "egress" => \A k \in 1..Len(tp.c.tx) : EgressFrameOk(k)

(* The same for the frames written through writeFrame: WriteFrame, Write    *)
(* and CloseWriter.                                                         *)
C7_EgressMaskingWriteFrame ==
    scn = "egress" =>
        \A k \in 1..Len(tp.c.tx) :
            hs.exp[k].via \in {"WriteFrame", "Write", "CloseWriter"} => EgressFrameOk(k)

C7_Witness ==
    /\ scn = "egress" /\ hs.client = 1 /\ Len(tp.c.tx) = MaxEgress
    /\ hs.exp[1].via = "Write" /\ hs.exp[1].payload = Abc
    /\ hs.exp[2].via = "Pong" /\ hs.exp[3].via = "Close"

-----------------------------------------------------------------------------
(* Scenario "enc": one WriteFrame of a payload of n bytes by a fresh Conn.  *)

EncBigLen == 70000

EncLens == {0, 1, maxLen7, maxLen7 + 1, 200, maxLen16, maxLen16 + 1, EncBigLen}

InitEnc ==
    /\ scn = "enc"
    /\ \E n \in EncLens, client \in {0, 1}, op \in {FrameText, FrameBinary, FrameContinue},
          final \in BOOLEAN :
          /\ hs = [n |-> n, client |-> client, op |-> op, final |-> final, pc |-> "new"]
          /\ cs = [c |-> NewConn(client, 0)]
    /\ tp = [c |-> NewNet(<<>>, FALSE)]
    /\ pc = Unused /\ mu = Unused /\ cc = Unused /\ cx = Unused

EncWriteFrame ==
    /\ scn = "enc" /\ hs.pc = "new"
    /\ \E key \in RoleKeys(hs.client) :
          \E w \in {WriteFrame([c |-> cs.c, t |-> tp.c], Msg(1, hs.n), hs.op, hs.final, key)} :
             /\ cs' = [cs EXCEPT !.c = w.s.c]
             /\ tp' = [tp EXCEPT !.c = w.s.t]
             /\ hs' = [hs EXCEPT !.pc = IF w.err = ErrNil /\ w.n = hs.n THEN "done" ELSE "failed"]
    /\ UNCHANGED <<scn, pc, mu, cc, cx>>

NextEnc == EncWriteFrame

SpecEnc == InitEnc /\ [][NextEnc]_vars

EncHeaderOf(b, n, k) ==
    /\ n <= 125 => (len7(b) = n /\ Len(b) = 2 + k + n)
    /\ (n >= 126 /\ n <= 65535) =>
          (len7(b) = 126 /\ (b[3] * 256) + b[4] = n /\ Len(b) = 4 + k + n)
    /\ n > 65535 =>
          /\ len7(b) = 127 /\ SubSeq(b, 3, 6) = <<0, 0, 0, 0>>
          /\ (((((b[7] * 256) + b[8]) * 256) + b[9]) * 256) + b[10] = n
          /\ Len(b) = 10 + k + n

(* C8: WriteFrame writes a payload of n bytes with the smallest length      *)
(* form: the 7-bit field is n up to 125, 126 and n in 16 bits big-endian up *)
(* to 65535, 127 and n in 64 bits big-endian above; a server's final Binary *)
(* frame of 200 bytes starts 82 7E 00 C8, one of 70000 bytes starts         *)
(* 82 7F 00 00 00 00 00 01 11 70.                                           *)
C8_MinimalLength ==
    scn = "enc" =>
        /\ hs.pc # "failed"
        /\ hs.pc = "done" =>
              \A b \in {tp.c.tx[1]} :
                 /\ Len(tp.c.tx) = 1
                 /\ EncHeaderOf(b, hs.n, 4 * hs.client)
                 /\ (hs.client = 0 /\ hs.op = FrameBinary /\ hs.final /\ hs.n = 200)
                       => Take(b, 4) = <<130, 126, 0, 200>>
                 /\ (hs.client = 0 /\ hs.op = FrameBinary /\ hs.final /\ hs.n = 70000)
                       => Take(b, 10) = <<130, 127, 0, 0, 0, 0, 0, 1, 17, 112>>

C8_Witness ==
    /\ scn = "enc" /\ hs.pc = "done" /\ hs.n = 200
    /\ hs.client = 0 /\ hs.op = FrameBinary /\ hs.final
    /\ Take(tp.c.tx[1], 4) = <<130, 126, 0, 200>>

-----------------------------------------------------------------------------
(* Scenario "conc": NumG goroutines call Read, ReadFrame, ReadFrameHeader,  *)
(* WriteFrame, CloseWriter and Close on one Conn.  pc[g] is what goroutine  *)
(* g has left to do of its call: the steps of the method, a mutex operation *)
(* or a transport call each.  A transport Write puts the first half of its  *)
(* bytes on the wire when it starts and the rest when it returns, so that   *)
(* two Writes in flight at once show on the wire.                           *)

NumG == 3
MaxOps == 3
MaxIn == 2

G == 1..NumG

ReadProg == <<"rmu.Lock", "readDataFrameHeader", "readFrame", "rmu.Unlock">>

ReadFrameProg == <<"rmu.Lock", "readFrame", "rmu.Unlock">>

ReadFrameHeaderProg == <<"rmu.Lock", "readDataFrameHeader", "rmu.Unlock">>

WriteFrameProg == <<"wmu.Lock", "writeFrame", "Conn.Write", "Conn.Write.ret", "wmu.Unlock">>

CloseWriterProg == <<"wmu.Lock", "closeWriter", "Conn.Write", "Conn.Write.ret", "wmu.Unlock">>

CloseProgBothLocks ==
    <<"wmu.Lock", "rmu.Lock", "closeFrame", "Conn.Write", "Conn.Write.ret", "Conn.Close",
      "rmu.Unlock", "wmu.Unlock">>

CloseProg ==
    <<"wmu.Lock", "closeFrame", "Conn.Write", "Conn.Write.ret", "Conn.Close", "wmu.Unlock">>

processPingProgNoLock == <<"processPing", "Conn.Write", "Conn.Write.ret">>

processPingProg ==
    <<"wmu.Lock", "processPing", "Conn.Write", "Conn.Write.ret", "wmu.Unlock">>

Prog(op) ==
    CASE op = "Read" -> ReadProg
      [] op = "ReadFrame" -> ReadFrameProg
      [] op = "ReadFrameHeader" -> ReadFrameHeaderProg
      [] op = "WriteFrame" -> WriteFrameProg
      [] op = "CloseWriter" -> CloseWriterProg
      [] op = "Close" -> CloseProg

ConcOps == {"Read", "ReadFrame", "ReadFrameHeader", "WriteFrame", "CloseWriter", "Close"}

MutexOf(step) == IF step \in {"rmu.Lock", "rmu.Unlock"} THEN "rmu" ELSE "wmu"

ConcWorld(client, rx) == [c |-> NewConn(client, 0), t |-> NewNet(rx, FALSE)]

ConcKey(client) == IF client = 1 THEN <<1, 2, 4, 8>> ELSE NoKey

(* The bytes the step hands to the transport's Write. *)
ConcBytes(step, g, client) ==
    CASE step = "writeFrame" ->
            writeFrame(ConcWorld(client, <<>>), Msg(g, 3), FrameBinary, TRUE,
                       ConcKey(client)).s.t.tx[1]
      [] step = "closeWriter" ->
            closeWriter(ConcWorld(client, <<>>), 0, ConcKey(client)).s.t.tx[1]
      [] step = "closeFrame" -> Close(ConcWorld(client, <<>>)).s.t.tx[1]
      [] step = "processPing" ->
            processPing(readFrameHeader(
                ConcWorld(client, <<PeerFrame(Frame(FramePing, TRUE, By), 1 - client,
                                              ConcKey(1 - client))>>)).s).s.t.tx[1]

InitConc ==
    /\ scn = "conc"
    /\ pc = [g \in G |-> <<>>]
    /\ mu = [m \in {"rmu", "wmu"} |-> 0]
    /\ \E client \in {0, 1} :
          cc = [client |-> client, op |-> [g \in G |-> "none"], nw |-> [g \in G |-> 0],
                buf |-> [g \in G |-> <<>>], ops |-> 0, sent |-> 0, rx |-> <<>>,
                writerClosed |-> FALSE, closed |-> FALSE,
                writing |-> {}, order |-> <<>>, wire |-> <<>>]
    /\ cs = Unused /\ tp = Unused /\ hs = Unused /\ cx = Unused

(* A goroutine calls a method of the Conn. *)
ConcCall ==
    /\ scn = "conc" /\ cc.ops < MaxOps
    /\ \E g \in G, op \in ConcOps :
          /\ pc[g] = <<>>
          /\ pc' = [pc EXCEPT ![g] = Prog(op)]
          /\ cc' = [cc EXCEPT !.ops = @ + 1, !.op[g] = op, !.nw[g] = 0]
    /\ UNCHANGED <<scn, cs, tp, hs, mu, cx>>

ConcLock ==
    /\ scn = "conc"
    /\ \E g \in G :
          /\ pc[g] # <<>> /\ Head(pc[g]) \in {"rmu.Lock", "wmu.Lock"}
          /\ mu[MutexOf(Head(pc[g]))] = 0
          /\ mu' = [mu EXCEPT ![MutexOf(Head(pc[g]))] = g]
          /\ pc' = [pc EXCEPT ![g] = Tail(@)]
    /\ UNCHANGED <<scn, cs, tp, hs, cc, cx>>

ConcUnlock ==
    /\ scn = "conc"
    /\ \E g \in G :
          /\ pc[g] # <<>> /\ Head(pc[g]) \in {"rmu.Unlock", "wmu.Unlock"}
          /\ mu' = [mu EXCEPT ![MutexOf(Head(pc[g]))] = 0]
          /\ pc' = [pc EXCEPT ![g] = Tail(@)]
    /\ UNCHANGED <<scn, cs, tp, hs, cc, cx>>

(* readDataFrameHeader: the transport read blocks while nothing has come;   *)
(* a Ping is answered by processPing and the loop goes on; a data frame's   *)
(* header ends it.                                                          *)
ConcReadHeader ==
    /\ scn = "conc"
    /\ \E g \in G :
          /\ pc[g] # <<>> /\ Head(pc[g]) = "readDataFrameHeader"
          /\ cc.rx # <<>>
          /\ pc' = [pc EXCEPT ![g] = IF Head(cc.rx) = "ping" THEN processPingProg \o @
                                     ELSE Tail(@)]
          /\ cc' = [cc EXCEPT !.rx = Tail(@)]
    /\ UNCHANGED <<scn, cs, tp, hs, mu, cx>>

ConcReadFrame ==
    /\ scn = "conc"
    /\ \E g \in G :
          /\ pc[g] # <<>> /\ Head(pc[g]) = "readFrame"
          /\ pc' = [pc EXCEPT ![g] = Tail(@)]
    /\ UNCHANGED <<scn, cs, tp, hs, mu, cc, cx>>

(* ConcBuild with closeWriter and Close leaving writerClosed as it is. *)
ConcBuildKeepFlag ==
    /\ scn = "conc"
    /\ \E g \in G :
          /\ pc[g] # <<>>
          /\ Head(pc[g]) \in {"writeFrame", "closeWriter", "closeFrame", "processPing"}
          /\ pc' = [pc EXCEPT ![g] =
                       IF Head(@) \in {"closeWriter", "closeFrame"} /\ cc.writerClosed
                       THEN Drop(@, 3) ELSE Tail(@)]
          /\ cc' = [cc EXCEPT !.buf[g] = ConcBytes(Head(pc[g]), g, cc.client)]
    /\ UNCHANGED <<scn, cs, tp, hs, mu, cx>>

(* writeFrame, closeWriter, the Close frame of Close, processPing: up to    *)
(* the transport Write.  closeWriter and Close write nothing when           *)
(* writerClosed is set, and set it.                                         *)
ConcBuild ==
    /\ scn = "conc"
    /\ \E g \in G :
          /\ pc[g] # <<>>
          /\ Head(pc[g]) \in {"writeFrame", "closeWriter", "closeFrame", "processPing"}
          /\ pc' = [pc EXCEPT ![g] =
                       IF Head(@) \in {"closeWriter", "closeFrame"} /\ cc.writerClosed
                       THEN Drop(@, 3) ELSE Tail(@)]
          /\ cc' = [cc EXCEPT !.buf[g] = ConcBytes(Head(pc[g]), g, cc.client),
                              !.writerClosed = @ \/ Head(pc[g]) \in {"closeWriter", "closeFrame"}]
    /\ UNCHANGED <<scn, cs, tp, hs, mu, cx>>

(* c.Conn.Write is entered: on a closed transport it fails at once. *)
ConcWriteBegin ==
    /\ scn = "conc"
    /\ \E g \in G :
          /\ pc[g] # <<>> /\ Head(pc[g]) = "Conn.Write"
          /\ pc' = [pc EXCEPT ![g] = IF cc.closed THEN Drop(@, 2) ELSE Tail(@)]
          /\ cc' = IF cc.closed THEN [cc EXCEPT !.nw[g] = @ + 1]
                   ELSE [cc EXCEPT !.nw[g] = @ + 1,
                                   !.writing = @ \cup {g},
                                   !.order = Append(@, [g |-> g, op |-> cc.op[g], b |-> cc.buf[g]]),
                                   !.wire = @ \o Take(cc.buf[g], Len(cc.buf[g]) \div 2)]
    /\ UNCHANGED <<scn, cs, tp, hs, mu, cx>>

ConcWriteEnd ==
    /\ scn = "conc"
    /\ \E g \in G :
          /\ pc[g] # <<>> /\ Head(pc[g]) = "Conn.Write.ret"
          /\ pc' = [pc EXCEPT ![g] = Tail(@)]
          /\ cc' = [cc EXCEPT !.writing = @ \ {g},
                              !.wire = @ \o Drop(cc.buf[g], Len(cc.buf[g]) \div 2)]
    /\ UNCHANGED <<scn, cs, tp, hs, mu, cx>>

(* The deferred c.Conn.Close() of Close. *)
ConcTransportClose ==
    /\ scn = "conc"
    /\ \E g \in G :
          /\ pc[g] # <<>> /\ Head(pc[g]) = "Conn.Close"
          /\ pc' = [pc EXCEPT ![g] = Tail(@)]
          /\ cc' = [cc EXCEPT !.closed = TRUE]
    /\ UNCHANGED <<scn, cs, tp, hs, mu, cx>>

(* A frame of the peer arrives. *)
ConcPeerSend ==
    /\ scn = "conc" /\ cc.sent < MaxIn
    /\ \E kind \in {"ping", "data"} :
          cc' = [cc EXCEPT !.sent = @ + 1, !.rx = Append(@, kind)]
    /\ UNCHANGED <<scn, cs, tp, hs, pc, mu, cx>>

NextConc ==
    \/ ConcCall \/ ConcLock \/ ConcUnlock \/ ConcReadHeader \/ ConcReadFrame
    \/ ConcBuild \/ ConcWriteBegin \/ ConcWriteEnd \/ ConcTransportClose \/ ConcPeerSend

SpecConc == InitConc /\ [][NextConc]_vars

RECURSIVE OrderBytes(_, _)
OrderBytes(order, n) ==
    IF n = 0 THEN <<>> ELSE OrderBytes(order, n - 1) \o order[n].b

(* What is on the wire if the Writes happened one after the other. *)
SerialWire ==
    IF cc.writing = {} THEN OrderBytes(cc.order, Len(cc.order))
    ELSE OrderBytes(cc.order, Len(cc.order) - 1)
         \o Take(cc.order[Len(cc.order)].b, Len(cc.order[Len(cc.order)].b) \div 2)

(* C9: a WriteFrame call makes one transport Write, of the whole frame; no *)
(* two transport Writes of WriteFrame, CloseWriter, Close and the Pong of   *)
(* the read path are in flight at once, and the wire holds the frames one   *)
(* after the other.                                                         *)
C9_WritesSerialized ==
    scn = "conc" =>
        /\ Cardinality(cc.writing) <= 1
        /\ cc.wire = SerialWire
        /\ \A g \in G : (cc.op[g] = "WriteFrame" /\ pc[g] = <<"wmu.Unlock">>) => cc.nw[g] = 1
        /\ \A k \in 1..Len(cc.order) :
              cc.order[k].op = "WriteFrame" =>
                  \A d \in {DecodeFrame(cc.order[k].b)} :
                      d.ok /\ d.op = FrameBinary /\ d.payload = Msg(cc.order[k].g, 3)

C9_Witness ==
    /\ scn = "conc" /\ Len(cc.order) = 2
    /\ \E g1 \in G, g2 \in G :
          /\ cc.writing = {g1} /\ cc.op[g1] \in {"Read", "ReadFrameHeader"}
          /\ mu["rmu"] = g1 /\ mu["wmu"] = g1
          /\ cc.op[g2] = "WriteFrame" /\ pc[g2] = WriteFrameProg
    /\ cc.order[1].op = "WriteFrame"

Waits(g, m) ==
    /\ pc[g] # <<>> /\ Head(pc[g]) \in {"rmu.Lock", "wmu.Lock"}
    /\ MutexOf(Head(pc[g])) = m /\ mu[m] # 0

(* C10: no goroutine acquires rmu while it holds wmu (wmu is taken alone or *)
(* under rmu), and no two goroutines wait for each other's mutex.           *)
C10_LockOrder ==
    scn = "conc" =>
        /\ \A g \in G : (pc[g] # <<>> /\ Head(pc[g]) = "rmu.Lock") => mu["wmu"] # g
        /\ ~ \E g1 \in G, g2 \in G :
              /\ g1 # g2
              /\ mu["rmu"] = g1 /\ Waits(g1, "wmu")
              /\ mu["wmu"] = g2 /\ Waits(g2, "rmu")

C10_Witness ==
    /\ scn = "conc"
    /\ \E g1 \in G, g2 \in G, g3 \in G :
          /\ mu["rmu"] = g1 /\ mu["wmu"] = g1
          /\ Waits(g2, "wmu") /\ cc.op[g2] = "Close"
          /\ Waits(g3, "rmu")

-----------------------------------------------------------------------------
(* Scenarios "order", "frag", ...: as "close" and "ping", a reader Conn is   *)
(* fed the byte stream of a peer, split by the transport at up to MaxCuts    *)
(* places, but the caller uses the whole read API: Read, ReadFrame and       *)
(* ReadFrameHeader in any order.  The last cutoff bytes of the peer's stream *)
(* never arrive (the peer's side ends there); wfail makes every transport    *)
(* Write of the reader fail.  hs.hdrs lists the headers ReadFrameHeader      *)
(* returned without error, hs.last describes the last call.                  *)

ApiKeys == {<<255, 16, 32, 64>>}

ApiFramePlen == 8

NoCall == [op |-> "none", plen |-> 0, n |-> 0, data |-> <<>>, err |-> ErrNil,
           more0 |-> 0, more1 |-> 0, got0 |-> 0, tx0 |-> 0, closed0 |-> FALSE]

InitApiWire(name, frames, client, key, wire, cutoff, wfail) ==
    /\ scn = name
    /\ \E rl \in WireRbufs, cuts \in CutSets(Len(wire), MaxCuts) :
          /\ hs = [client |-> client, frames |-> frames, key |-> key, wire |-> wire,
                   nchunks |-> Cardinality(cuts) + 1, cutoff |-> cutoff,
                   got |-> <<>>, hdrs |-> <<>>, failed |-> FALSE, failedBy |-> NoCall,
                   skipped |-> FALSE, last |-> NoCall]
          /\ cs = [rd |-> NewConn(client, rl)]
          /\ tp = [rd |-> [NewNet(SplitFrom(wire, cuts, 0), TRUE) EXCEPT !.wfail = wfail]]
    /\ pc = Unused /\ mu = Unused /\ cc = Unused /\ cx = Unused

InitApi(name, frames, client, cutoff, wfail) ==
    \E key \in (IF client = 1 THEN {NoKey} ELSE ApiKeys) :
       \E w \in {PeerWire(frames, 1 - client, key)} :
          InitApiWire(name, frames, client, key, Take(w, Len(w) - cutoff), cutoff, wfail)

(* The call failed: it returned an error other than the io.EOF by which    *)
(* ReadFrame reports the end of the frame.                                  *)
ApiFailed(r, op) == r.err # ErrNil /\ ~(op = "ReadFrame" /\ r.err = ErrEOF)

(* What the harness records of a call that returned r: the bytes and        *)
(* headers it got, whether a call has failed and which was the first, and   *)
(* the last call with the Conn's more before and after it.                  *)
ApiHist(r, op, plen, data, hdr) ==
          [hs EXCEPT !.got = @ \o data,
                        !.hdrs = IF op = "ReadFrameHeader" /\ r.err = ErrNil
                                 THEN Append(@, hdr) ELSE @,
                        !.failed = @ \/ ApiFailed(r, op),
                        !.skipped = @ \/ (op = "ReadFrameHeader" /\ cs.rd.more # 0),
                        !.failedBy = IF ~hs.failed /\ ApiFailed(r, op)
                                     THEN [NoCall EXCEPT !.op = op, !.err = r.err] ELSE @,
                        !.last = [op |-> op, plen |-> plen, n |-> Len(data), data |-> data,
                                  err |-> r.err, more0 |-> cs.rd.more, more1 |-> r.s.c.more,
                                  got0 |-> Len(hs.got), tx0 |-> Len(tp.rd.tx),
                                  closed0 |-> hs.failed]]

ApiDone(r, op, plen, data, hdr) ==
    /\ cs' = [cs EXCEPT !.rd = r.s.c]
    /\ tp' = [tp EXCEPT !.rd = r.s.t]
    /\ hs' = ApiHist(r, op, plen, data, hdr)
    /\ UNCHANGED <<scn, pc, mu, cc, cx>>

ApiScenarios == {"order", "frag", "eof", "ctlerr", "unknown", "biglen", "trail", "cursors",
                 "hdr", "sentinel", "pong", "rsv", "term",
                 "mixed", "skip", "pingbuf", "wstate"}

(* How far below the buffer the start cursor may be for the caller to make  *)
(* another call: each skip of a payload that never arrives moves it down.   *)
(* Compaction under a long frame moves it down too, by less than the        *)
(* stream's length, which the "trail" scenario allows for.                  *)
MaxBack == 12

(* The caller can make a call: the program has not crashed or hung in the   *)
(* last one.                                                                *)
ApiCanCall ==
    /\ scn \in ApiScenarios
    /\ hs.last.err \notin {ErrPanic, ErrHang}
    /\ cs.rd.start >= -(MaxBack + (IF scn = "trail" THEN Len(hs.wire) ELSE 0))
    /\ scn = "trail" => hs.conn

ApiRead ==
    /\ ApiCanCall
    /\ \E plen \in WireChunks :
          \E r \in {Read([c |-> cs.rd, t |-> tp.rd], plen)} :
             ApiDone(r, "Read", plen, r.data, <<>>)

ApiReadFrame ==
    /\ ApiCanCall
    /\ \E plen \in {ApiFramePlen} :
          \E r \in {ReadFrame([c |-> cs.rd, t |-> tp.rd], plen)} :
             ApiDone(r, "ReadFrame", plen, r.data, <<>>)

ApiReadFrameHeader ==
    /\ ApiCanCall
    /\ \E r \in {ReadFrameHeader([c |-> cs.rd, t |-> tp.rd])} :
          ApiDone(r, "ReadFrameHeader", 0, <<>>, [op |-> r.op, fin |-> r.fin, l |-> r.l])

NextApi == ApiRead \/ ApiReadFrame \/ ApiReadFrameHeader

(* Scenario "order": Text "abc" (no FIN), a Ping, Continuation "de" (FIN). *)
InitOrder ==
    \E client \in {0, 1}, pp \in {<<>>, <<1, 2>>} :
        InitApi("order", <<Frame(FrameText, FALSE, Abc), Frame(FramePing, TRUE, pp),
                           Frame(FrameContinue, TRUE, De)>>, client, 0, FALSE)

SpecOrder == InitOrder /\ [][NextApi]_vars

(* The caller holds something of the data frame that follows the Ping: a    *)
(* second header, or more bytes than the first data frame has.              *)
OrderSecondSeen == Len(hs.hdrs) >= 2 \/ Len(hs.got) > Len(Abc)

OrderPongWritten ==
    /\ Len(tp.rd.tx) >= 1
    /\ Opcode(tp.rd.tx[1]) = FramePong

(* C11: when ReadFrameHeader or Read has returned something of the data     *)
(* frame that follows a Ping, the transport Write of the Pong has been made. *)
C11_ControlBeforeData ==
    (scn = "order" /\ OrderSecondSeen) => OrderPongWritten

(* The same for a caller that never asks for a header while payload of the  *)
(* current frame is unread.                                                 *)
C11_ControlBeforeDataNoSkip ==
    (scn = "order" /\ ~hs.skipped /\ OrderSecondSeen) => OrderPongWritten

C11_Witness ==
    /\ scn = "order" /\ ~hs.skipped /\ hs.nchunks = 3
    /\ hs.hdrs = <<[op |-> FrameText, fin |-> FALSE, l |-> 3],
                   [op |-> FrameContinue, fin |-> TRUE, l |-> 2]>>
    /\ hs.got = Abc \o De
    /\ OrderPongWritten /\ Len(tp.rd.tx) = 1

-----------------------------------------------------------------------------
(* Scenario "eof": Text "abc" and a Binary frame of 5 bytes, both final; the *)
(* peer's stream ends cutoff bytes before the end of the second frame:       *)
(* between the frames' ends (0), inside the payload (1..4), after the header *)
(* (5) or inside it.                                                         *)

EofPayload == Msg(1, 5)

EofCutoffs == {0, 2, 5, 6}

InitEof ==
    \E client \in {0, 1}, cutoff \in EofCutoffs :
        InitApi("eof", <<Frame(FrameText, TRUE, Abc), Frame(FrameBinary, TRUE, EofPayload)>>,
                client, cutoff, FALSE)

SpecEof == InitEof /\ [][NextApi]_vars

(* The last call was a Read that delivered no byte after the transport gave *)
(* its last byte: a transport read of the call returned 0 bytes and EOF.    *)
EofBareRead ==
    /\ scn = "eof" /\ hs.last.op = "Read" /\ hs.last.n = 0 /\ tp.rd.rx = <<>>

(* C12: a Read that delivers no byte because the transport read returned 0  *)
(* bytes with end-of-stream returns end-of-stream, between frames and inside *)
(* a payload; a Read that has obtained bytes returns them without error.     *)
C12_EofSurfaced ==
    /\ EofBareRead => hs.last.err # ErrNil
    /\ (scn = "eof" /\ hs.last.op = "Read" /\ hs.last.n > 0) => hs.last.err = ErrNil

(* The part of C12 that holds: the end of the stream between two frames is  *)
(* surfaced, and a Read that obtained bytes returns them without error.      *)
C12_EofBetweenFrames ==
    /\ (EofBareRead /\ hs.last.more1 = 0) => hs.last.err # ErrNil
    /\ (scn = "eof" /\ hs.last.op = "Read" /\ hs.last.n > 0) => hs.last.err = ErrNil

(* A Read in the middle of a payload whose transport read returned 0, EOF.  *)
C12_Witness ==
    /\ EofBareRead /\ hs.cutoff = 2 /\ ~hs.skipped
    /\ hs.got = Abc \o Take(EofPayload, 3)
    /\ hs.last.more0 = 2 /\ hs.last.more1 = 2

-----------------------------------------------------------------------------
(* Scenario "ctlerr": the handling of a control frame fails.  Either the    *)
(* peer sends a Ping with a 2-byte payload and a Binary frame "de" and the  *)
(* reader's transport fails every Write, so that processPing fails; or the  *)
(* peer sends a Close frame with a 1-byte payload and a Binary frame.       *)

CtlPing == <<1, 2>>

InitCtlErr ==
    \E client \in {0, 1} :
        \/ InitApi("ctlerr", <<Frame(FramePing, TRUE, CtlPing), Frame(FrameBinary, TRUE, De)>>,
                   client, 0, TRUE)
        \/ InitApi("ctlerr", <<Frame(FrameClose, TRUE, <<3>>), Frame(FrameBinary, TRUE, De)>>,
                   client, 0, FALSE)

SpecCtlErr == InitCtlErr /\ [][NextApi]_vars

(* A Read was aborted by the error of a control frame's handling, and the   *)
(* last call was made after it.                                             *)
CtlAborted ==
    /\ scn = "ctlerr" /\ hs.last.closed0
    /\ hs.failedBy.op = "Read" /\ hs.failedBy.err \in {ErrTransport, ErrWtfClose}

(* C13: after a Read was aborted by a failed Pong write or by a 1-byte      *)
(* Close payload, every later Read, ReadFrame and ReadFrameHeader returns   *)
(* no byte and reports end-of-stream or an error.                           *)
C13_ClosedAfterControlError ==
    CtlAborted => (hs.last.n = 0 /\ hs.last.err # ErrNil)

(* What holds of it: after the 1-byte Close, ReadFrameHeader reports        *)
(* end-of-stream.                                                           *)
C13_HeaderAfterBadClose ==
    (CtlAborted /\ hs.failedBy.err = ErrWtfClose /\ hs.last.op = "ReadFrameHeader")
        => hs.last.err = ErrEOF

C13_Witness ==
    /\ CtlAborted /\ hs.failedBy.err = ErrTransport
    /\ hs.last.op = "Read" /\ hs.last.more0 = 2

-----------------------------------------------------------------------------
(* Scenario "unknown": the peer sends a frame with an opcode that is none   *)
(* of Continuation, Text, Binary, Close, Ping, Pong, and then a Binary      *)
(* frame "de".                                                              *)

UnknownOpcodes == {3, 7, 11, 15}

InitUnknown ==
    \E client \in {0, 1}, op \in UnknownOpcodes, p \in {<<>>, Abc} :
        InitApi("unknown", <<Frame(op, TRUE, p), Frame(FrameBinary, TRUE, De)>>, client, 0, FALSE)

SpecUnknown == InitUnknown /\ [][NextApi]_vars

(* C14: a frame with an unknown opcode makes the Read or ReadFrameHeader    *)
(* call that meets it fail with the protocol error, and no later Read       *)
(* returns payload bytes.                                                   *)
C14_UnknownOpcodeFatal ==
    scn = "unknown" =>
        /\ hs.last.op \in {"Read", "ReadFrameHeader"} =>
              (hs.failed /\ hs.failedBy.err = ErrInvalidFrame)
        /\ (hs.last.closed0 /\ hs.last.op = "Read") => hs.last.n = 0

(* The first half of C14: the call that meets the frame fails. *)
C14_UnknownOpcodeFails ==
    (scn = "unknown" /\ hs.last.op \in {"Read", "ReadFrameHeader"}) =>
        (hs.failed /\ hs.failedBy.err = ErrInvalidFrame)

C14_Witness ==
    /\ scn = "unknown" /\ hs.frames[1].op = 11 /\ hs.frames[1].payload = Abc
    /\ hs.failedBy.op = "Read" /\ hs.failedBy.err = ErrInvalidFrame
    /\ hs.last.closed0 /\ hs.last.op = "Read" /\ hs.last.more0 = 3

-----------------------------------------------------------------------------
(* Scenario "biglen": the peer sends a final Binary frame header in the     *)
(* 64-bit length form whose length field starts with the byte top and ends  *)
(* with 3, the key if it masks, and 3 bytes.  top = 0 is the length 3;      *)
(* top >= 64 is a length of 2^62 or more; top >= 128 has the top bit set.   *)

BigLenTops == {0, 64, 128}

BigLenWire(client, key, top) ==
    <<finbit + FrameBinary, ((1 - client) * masked) + len64, top, 0, 0, 0, 0, 0, 0, 3>>
    \o (IF client = 0 THEN key ELSE <<>>) \o Abc

InitBigLen ==
    \E client \in {0, 1}, top \in BigLenTops :
       \E key \in (IF client = 1 THEN {NoKey} ELSE ApiKeys) :
          InitApiWire("biglen", <<>>, client, key, BigLenWire(client, key, top), 0, FALSE)

SpecBigLen == InitBigLen /\ [][NextApi]_vars

(* The length field of the peer's header encodes 2^62 or more. *)
BigLenOver == scn = "biglen" /\ hs.wire[3] >= 64

(* C15: a header whose 64-bit length is above 2^62 - 1 is rejected: the     *)
(* call that meets it fails, no header with such a length or a negative one *)
(* is returned, and more is not latched.                                    *)
C15_HugeLengthRejected ==
    BigLenOver =>
        /\ hs.hdrs = <<>>
        /\ cs.rd.more = 0
        /\ hs.last.op \in {"Read", "ReadFrameHeader"} => hs.failed

C15_Witness ==
    /\ BigLenOver /\ hs.wire[3] = 128 /\ hs.nchunks = 3
    /\ hs.last.op = "ReadFrameHeader" /\ hs.last.err = ErrNil
    /\ hs.hdrs = <<[op |-> FrameBinary, fin |-> TRUE, l |-> -HugeLen]>>
    /\ cs.rd.more = -HugeLen

-----------------------------------------------------------------------------
(* Scenario "writer": one Conn of either role on a transport whose Write    *)
(* works, or fails after taking wn bytes, and whose Close returns nil or an *)
(* error.  The caller makes up to MaxWrCalls calls of WriteFrame,           *)
(* CloseWriter and Close; hs.last describes the last call: its arguments,   *)
(* results, and the Conn and transport as they were before it.              *)

MaxWrCalls == 3

WrCounts == {0, 1, 2, 4, 6, 7, 9}
WrPayloads == {<<>>, Abc}
WrStatuses == {0, StatusOK, 1001, 4999}

NoWrCall == [op |-> "none", p |-> <<>>, status |-> 0, n |-> 0, err |-> ErrNil, did |-> <<>>,
             wc0 |-> FALSE, closed0 |-> FALSE, tx0 |-> 0]

InitWriter ==
    /\ scn = "writer"
    /\ \E client \in {0, 1}, wfail \in BOOLEAN, cerr \in BOOLEAN :
       \E wn \in (IF wfail THEN WrCounts ELSE {0}) :
          /\ hs = [client |-> client, calls |-> 0, last |-> NoWrCall]
          /\ cs = [c |-> NewConn(client, 0)]
          /\ tp = [c |-> [NewNet(<<>>, FALSE) EXCEPT !.wfail = wfail, !.wn = wn, !.cerr = cerr]]
    /\ pc = Unused /\ mu = Unused /\ cc = Unused /\ cx = Unused

WrDone(r, call) ==
    /\ cs' = [cs EXCEPT !.c = r.s.c]
    /\ tp' = [tp EXCEPT !.c = r.s.t]
    /\ hs' = [hs EXCEPT !.calls = @ + 1,
                        !.last = [call EXCEPT !.err = r.err, !.wc0 = cs.c.writerClosed,
                                              !.closed0 = tp.c.closed, !.tx0 = Len(tp.c.tx)]]
    /\ UNCHANGED <<scn, pc, mu, cc, cx>>

WrWriteFrame ==
    /\ scn = "writer" /\ hs.calls < MaxWrCalls
    /\ \E p \in WrPayloads, key \in RoleKeys(hs.client) :
          \E w \in {WriteFrame([c |-> cs.c, t |-> tp.c], p, FrameBinary, TRUE, key)} :
             WrDone(w, [NoWrCall EXCEPT !.op = "WriteFrame", !.p = p, !.n = w.n])

WrCloseWriter ==
    /\ scn = "writer" /\ hs.calls < MaxWrCalls
    /\ \E status \in WrStatuses, key \in RoleKeys(hs.client) :
          \E w \in {CloseWriter([c |-> cs.c, t |-> tp.c], status, key)} :
             WrDone(w, [NoWrCall EXCEPT !.op = "CloseWriter", !.status = status])

WrClose ==
    /\ scn = "writer" /\ hs.calls < MaxWrCalls
    /\ \E w \in {Close([c |-> cs.c, t |-> tp.c])} :
          WrDone(w, [NoWrCall EXCEPT !.op = "Close", !.did = w.did])

NextWriter == WrWriteFrame \/ WrCloseWriter \/ WrClose

SpecWriter == InitWriter /\ [][NextWriter]_vars

(* A transport Write of the last call would have failed. *)
WrWriteFails == hs.last.closed0 \/ tp.c.wfail

(* The last call added one Write to the transport's log. *)
WrOneWrite == Len(tp.c.tx) = hs.last.tx0 + 1

(* C16: every Close closes the transport, after a write of the empty Close   *)
(* frame exactly when the write side was not closed, and returns the error  *)
(* of that write if it failed, else the error of the transport's Close.     *)
C16_CloseClosesTransport ==
    (scn = "writer" /\ hs.last.op = "Close") =>
        /\ tp.c.closed
        /\ hs.last.did = (IF hs.last.wc0 THEN <<"Close">> ELSE <<"Write", "Close">>)
        /\ cs.c.writerClosed
        /\ (~hs.last.wc0 /\ ~WrWriteFails) =>
              /\ WrOneWrite
              /\ Len(tp.c.tx[Len(tp.c.tx)]) = 2
              /\ tp.c.tx[Len(tp.c.tx)][1] = FrameClose + finbit
              /\ len7(tp.c.tx[Len(tp.c.tx)]) = 0
        /\ (hs.last.wc0 \/ WrWriteFails) => Len(tp.c.tx) = hs.last.tx0
        /\ hs.last.err = (IF ~hs.last.wc0 /\ WrWriteFails THEN ErrWriteClose
                          ELSE IF tp.c.cerr THEN ErrTransportClose ELSE ErrNil)

(* A second Close, on a Conn whose first Close could not write its frame:   *)
(* it writes nothing, closes the transport again and returns its error.     *)
C16_Witness ==
    /\ scn = "writer" /\ hs.last.op = "Close" /\ hs.calls = 2
    /\ hs.last.wc0 /\ hs.last.closed0 /\ tp.c.wfail /\ tp.c.cerr
    /\ hs.last.did = <<"Close">> /\ hs.last.err = ErrTransportClose

(* C17: CloseWriter on an open write side writes one Close frame whose      *)
(* payload is the status in 2 bytes big-endian, 1000 for status 0, and      *)
(* marks the write side closed; on a closed write side it writes nothing    *)
(* and returns nil.                                                         *)
C17_CloseWriterFrame ==
    (scn = "writer" /\ hs.last.op = "CloseWriter") =>
        /\ cs.c.writerClosed
        /\ hs.last.wc0 => (hs.last.err = ErrNil /\ Len(tp.c.tx) = hs.last.tx0)
        /\ (~hs.last.wc0 /\ ~WrWriteFails) =>
              /\ WrOneWrite /\ hs.last.err = ErrNil
              /\ \A d \in {DecodeFrame(tp.c.tx[Len(tp.c.tx)])} :
                    /\ d.ok /\ d.op = FrameClose /\ d.final
                    /\ d.payload = (IF hs.last.status = 0 THEN <<3, 232>>
                                    ELSE <<hs.last.status \div 256, hs.last.status % 256>>)

C17_Witness ==
    /\ scn = "writer" /\ hs.last.op = "CloseWriter" /\ hs.last.status = 0
    /\ ~hs.last.wc0 /\ WrOneWrite /\ hs.client = 1
    /\ DecodeFrame(tp.c.tx[Len(tp.c.tx)]).payload = <<3, 232>>

(* The bytes before the payload in what WriteFrame hands to the transport,  *)
(* and the count the transport returns for it.                              *)
WrHeaderSize == 2 + (4 * hs.client)

WrTransportN ==
    IF hs.last.closed0 THEN 0
    ELSE IF tp.c.wfail THEN Min(tp.c.wn, WrHeaderSize + Len(hs.last.p))
    ELSE WrHeaderSize + Len(hs.last.p)

-----------------------------------------------------------------------------
(* Scenario "frag": the peer sends Text "abc" without FIN and Continuation  *)
(* "de" with FIN.                                                           *)

InitFrag ==
    \E client \in {0, 1} :
        InitApi("frag", <<Frame(FrameText, FALSE, Abc), Frame(FrameContinue, TRUE, De)>>,
                client, 0, FALSE)

SpecFrag == InitFrag /\ [][NextApi]_vars

FragHeaders == <<[op |-> FrameText, fin |-> FALSE, l |-> Len(Abc)],
                 [op |-> FrameContinue, fin |-> TRUE, l |-> Len(De)]>>

(* What was left of the frame the last Read delivered from: what was left   *)
(* when it was called or, if it read a header, the payload of that frame.   *)
FragRemaining == IF hs.last.more0 # 0 THEN hs.last.more0 ELSE hs.last.more1 + hs.last.n

(* d is a run of consecutive payload bytes of "abc" or of "de".             *)
FragSegment(d) ==
    \E f \in {Abc, De} : \E k \in 0..Len(f) :
        k + Len(d) <= Len(f) /\ d = SubSeq(f, k + 1, k + Len(d))

(* The last Read delivered at most min(len(buf), remaining payload) bytes,  *)
(* all of them payload of one frame.                                        *)
FragOneFrame ==
    hs.last.op = "Read" =>
        /\ hs.last.n <= Min(hs.last.plen, FragRemaining)
        /\ FragSegment(hs.last.data)

(* Every header ReadFrameHeader reported is the header of a frame sent, in  *)
(* the order sent (Read may have read a frame's header itself).             *)
FragOwnHeaders ==
    hs.hdrs \in {<<>>, <<FragHeaders[1]>>, <<FragHeaders[2]>>, FragHeaders}

(* Nothing was skipped: the bytes delivered are "abc" then "de", no Read    *)
(* runs over the end of "abc", and the header last reported is that of the  *)
(* frame whose payload comes next.                                          *)
FragInOrder ==
    /\ IsPrefix(hs.got, Abc \o De)
    /\ (hs.last.op = "Read" /\ hs.last.got0 < Len(Abc)) => Len(hs.got) <= Len(Abc)
    /\ (hs.last.op = "ReadFrameHeader" /\ hs.last.err = ErrNil) =>
           hs.hdrs[Len(hs.hdrs)] = FragHeaders[IF hs.last.got0 < Len(Abc) THEN 1 ELSE 2]

(* C19: a Read never returns bytes of more than one frame, at most          *)
(* min(len(buf), remaining payload) of them, and ReadFrameHeader reports    *)
(* each data frame's own opcode, FIN bit and length: (Text, false, 3) for   *)
(* "abc", (Continuation, true, 2) for "de".                                 *)
C19_OneFramePerRead ==
    scn = "frag" => (FragOneFrame /\ FragOwnHeaders)

(* The same, and "abc" then "de" in order, for a caller that never asks for *)
(* a header while payload of the current frame is unread.                   *)
C19_OneFramePerReadNoSkip ==
    (scn = "frag" /\ ~hs.skipped) => (FragOneFrame /\ FragOwnHeaders /\ FragInOrder)

(* ReadFrameHeader, Read "abc", ReadFrameHeader, Read "de", with the stream *)
(* split in three by the transport.                                         *)
C19_Witness ==
    /\ scn = "frag" /\ ~hs.skipped /\ hs.nchunks = 3
    /\ hs.hdrs = FragHeaders /\ hs.got = Abc \o De
    /\ hs.last.op = "Read" /\ hs.last.data = De /\ hs.last.plen = 8

-----------------------------------------------------------------------------
(* Scenario "fix": FixError applied to the errors a read can end with,      *)
(* under a context that is live, cancelled, or past its deadline.  The      *)
(* caller keeps the arguments and the result of each call.                  *)

MaxFixCalls == 2

FixErrs == {ErrNil, ErrEOF, ErrTimeout, ErrReset, ErrDeadlineExceeded,
            ErrCanceled, ErrInvalidFrame, ErrStatus(StatusOK)}

InitFix ==
    /\ scn = "fix"
    /\ cx = [ctx |-> ErrNil, calls |-> <<>>]
    /\ cs = Unused /\ tp = Unused /\ hs = Unused
    /\ pc = Unused /\ mu = Unused /\ cc = Unused

(* err = FixError(ctx, err) *)
FixCall ==
    /\ scn = "fix" /\ Len(cx.calls) < MaxFixCalls
    /\ \E err \in FixErrs :
          cx' = [cx EXCEPT !.calls = Append(@, [ctx |-> cx.ctx, err |-> err,
                                                 out |-> FixError(cx.ctx, err)])]
    /\ UNCHANGED <<scn, cs, tp, hs, pc, mu, cc>>

(* The context is cancelled. *)
FixCtxCancel ==
    /\ scn = "fix" /\ cx.ctx = ErrNil
    /\ cx' = [cx EXCEPT !.ctx = ErrCanceled]
    /\ UNCHANGED <<scn, cs, tp, hs, pc, mu, cc>>

(* The context's deadline passes. *)
FixCtxExpire ==
    /\ scn = "fix" /\ cx.ctx = ErrNil
    /\ cx' = [cx EXCEPT !.ctx = ErrDeadlineExceeded]
    /\ UNCHANGED <<scn, cs, tp, hs, pc, mu, cc>>

NextFix == FixCall \/ FixCtxCancel \/ FixCtxExpire

SpecFix == InitFix /\ [][NextFix]_vars

(* The timeouts among FixErrs. *)
FixTimeouts == {ErrTimeout, ErrDeadlineExceeded}

(* C20: FixError returns the context's cancellation error if the error is a *)
(* timeout and the context is done, and only then anything but the error it *)
(* was given: a timeout under a live context and a non-timeout error under  *)
(* any context come back unchanged.                                         *)
C20_FixError ==
    scn = "fix" =>
        \A k \in 1..Len(cx.calls) :
            /\ (cx.calls[k].err \in FixTimeouts /\ cx.calls[k].ctx # ErrNil)
                   => cx.calls[k].out = cx.calls[k].ctx
            /\ (cx.calls[k].err \in FixTimeouts /\ cx.calls[k].ctx = ErrNil)
                   => cx.calls[k].out = cx.calls[k].err
            /\ cx.calls[k].err \notin FixTimeouts
                   => cx.calls[k].out = cx.calls[k].err
            /\ cx.calls[k].out # cx.calls[k].err
                   => (cx.calls[k].err \in FixTimeouts /\ cx.calls[k].ctx # ErrNil)

(* A timeout under a live context came back unchanged; after the context    *)
(* was cancelled the same timeout became the cancellation error.            *)
C20_Witness ==
    /\ scn = "fix" /\ Len(cx.calls) = 2
    /\ cx.calls[1] = [ctx |-> ErrNil, err |-> ErrTimeout, out |-> ErrTimeout]
    /\ cx.calls[2] = [ctx |-> ErrCanceled, err |-> ErrTimeout, out |-> ErrCanceled]

-----------------------------------------------------------------------------
(* Scenario "trail": the handshake's bufio.Reader r holds the first n bytes *)
(* of the peer's frames when the HTTP exchange is over; the rest comes from *)
(* the transport.                                                           *)

ErrTrailingData == <<"trailing data">>

(* The read buffer's minimum as Client.Handshake names it. *)
minReadBuf == minReadBufSize

(* cap() of the array append() allocates for n bytes: the allocator's size  *)
(* classes, 8, 16, 24, 32, 48, 64.                                          *)
roundupsize(n) == IF n <= 32 THEN ((n + 7) \div 8) * 8 ELSE ((n + 15) \div 16) * 16

(* grow(b, n) for a b of capacity cap0 and length 0: the capacity, which is *)
(* also the length, of the result.                                          *)
grow(cap0, n) == IF n > cap0 THEN roundupsize(n) ELSE cap0

(* The end of Client.Handshake: conn.rbuf = grow(conn.rbuf, min(n,          *)
(* minReadBuf)); m, err := r.Read(conn.rbuf[:n]); conn.end = m.  buffered   *)
(* is what r holds.  conn says whether a Conn is returned.                  *)
ClientHandshake(buffered) ==
    LET n == Len(buffered)
        c0 == NewConn(1, 0)
        l == grow(0, Min(n, minReadBuf))
    IN  IF n = 0 THEN [conn |-> TRUE, c |-> c0, err |-> ErrNil]
        ELSE IF n > l THEN [conn |-> FALSE, c |-> c0, err |-> ErrPanic]
        ELSE [conn |-> TRUE,
              c |-> [c0 EXCEPT !.rlen = l, !.rcap = l, !.rdata = buffered, !.end = n],
              err |-> ErrNil]

(* The end of Server.Handshake. *)
ServerHandshake(buffered) ==
    IF Len(buffered) # 0
    THEN [conn |-> FALSE, c |-> NewConn(0, 0), err |-> ErrTrailingData]
    ELSE [conn |-> TRUE, c |-> NewConn(0, 0), err |-> ErrNil]

Handshake(client, buffered) ==
    IF client = 1 THEN ClientHandshake(buffered) ELSE ServerHandshake(buffered)

TrailFrames == <<Frame(FrameBinary, TRUE, Msg(1, 5)), Frame(FrameBinary, TRUE, Msg(2, 30))>>
TrailNs == {1, 3, 8, 24, 32, 33}

(* Where the transport cuts the rest of the stream: not at all, or after    *)
(* its first, second or eighth byte.                                        *)
TrailCuts == {{}, {1}, {2}, {8}}

InitTrail ==
    /\ scn = "trail"
    /\ \E client \in {0, 1} :
       \E key \in (IF client = 1 THEN {NoKey} ELSE ApiKeys) :
       \E w \in {PeerWire(TrailFrames, 1 - client, key)} :
       \E n \in TrailNs :
       \E cuts \in {cset \in TrailCuts : \A x \in cset : x < Len(w) - n} :
          /\ hs = [client |-> client, frames |-> TrailFrames, key |-> key, wire |-> w,
                   nchunks |-> Cardinality(cuts) + 1, cutoff |-> 0, trail |-> n,
                   conn |-> FALSE,
                   got |-> <<>>, hdrs |-> <<>>, failed |-> FALSE, failedBy |-> NoCall,
                   skipped |-> FALSE, last |-> NoCall]
          /\ cs = [rd |-> NewConn(client, 0)]
          /\ tp = [rd |-> NewNet(SplitFrom(Drop(w, n), cuts, 0), TRUE)]
    /\ pc = Unused /\ mu = Unused /\ cc = Unused /\ cx = Unused

(* Client.Handshake or Server.Handshake returns. *)
TrailHandshake ==
    /\ scn = "trail" /\ hs.last.op = "none"
    /\ \E r \in {Handshake(hs.client, Take(hs.wire, hs.trail))} :
          /\ cs' = [cs EXCEPT !.rd = r.c]
          /\ hs' = [hs EXCEPT !.conn = r.conn,
                              !.last = [NoCall EXCEPT !.op = "Handshake", !.err = r.err]]
    /\ UNCHANGED <<scn, tp, pc, mu, cc, cx>>

NextTrail == TrailHandshake \/ NextApi

SpecTrail == InitTrail /\ [][NextTrail]_vars

TrailPayload == Flatten([k \in 1..Len(TrailFrames) |-> TrailFrames[k].payload])

TrailHeaders == [k \in 1..Len(TrailFrames) |->
                    [op |-> TrailFrames[k].op, fin |-> TrailFrames[k].final,
                     l |-> Len(TrailFrames[k].payload)]]

(* What the reader has returned is what was sent: the payload bytes in      *)
(* order, headers of frames sent in order, and no error but the end of the  *)
(* stream.                                                                  *)
TrailReadOk ==
    /\ IsPrefix(hs.got, TrailPayload)
    /\ hs.hdrs \in {<<>>, <<TrailHeaders[1]>>, <<TrailHeaders[2]>>, TrailHeaders}
    /\ hs.failedBy.err \in {ErrNil, ErrEOF}

(* C21: with n > 0 bytes buffered by the handshake's reader, the handshake  *)
(* returns a Conn whose read buffer holds exactly those n bytes, and the     *)
(* frame reader parses them before what the transport delivers later and    *)
(* loses none: the Reads deliver the payloads sent, ReadFrameHeader returns *)
(* the headers sent, and no call fails before the end of the stream.        *)
C21_TrailingTransplanted ==
    (scn = "trail" /\ hs.last.op # "none") =>
        /\ hs.conn
        /\ hs.last.op = "Handshake" =>
              (cs.rd.end = hs.trail /\ cs.rd.rlen >= hs.trail
               /\ RbSlice(cs.rd, 0, hs.trail) = Take(hs.wire, hs.trail))
        /\ ~hs.skipped => TrailReadOk

(* The same for a client and at most minReadBuf bytes, up to the handshake's *)
(* return.                                                                  *)
C21_TransplantedAtReturn ==
    (scn = "trail" /\ hs.last.op = "Handshake" /\ hs.client = 1 /\ hs.trail <= minReadBuf) =>
        /\ hs.conn
        /\ cs.rd.end = hs.trail /\ cs.rd.rlen >= hs.trail
        /\ RbSlice(cs.rd, 0, hs.trail) = Take(hs.wire, hs.trail)

(* A client whose handshake left 24 bytes has read both headers and both    *)
(* payloads.                                                                *)
C21_Witness ==
    /\ scn = "trail" /\ hs.client = 1 /\ hs.trail = 24 /\ hs.conn
    /\ hs.got = TrailPayload /\ hs.hdrs = TrailHeaders /\ ~hs.failed /\ ~hs.skipped

-----------------------------------------------------------------------------
(* Scenario "cursors": two data frames, 3 and 20 bytes, read by any         *)
(* sequence of Read, ReadFrame, ReadFrameHeader and ReadRawFrameHeader.     *)
(* The harness counts the headers latched (nfr), and for the current frame  *)
(* the length its header gave (curL, -1 for a header refused as invalid and *)
(* after a frame was given up for a header that did not come) and the       *)
(* payload bytes handed to the caller (cur).                                *)

CurFrames == <<Frame(FrameBinary, TRUE, Msg(1, 3)), Frame(FrameBinary, TRUE, Msg(2, 20))>>
CurCuts == {{}, {1}, {7}, {8}, {15}, {20}}
CurChunks == {2, 16}

InitCursors ==
    /\ scn = "cursors"
    /\ \E client \in {0, 1} :
       \E key \in (IF client = 1 THEN {NoKey} ELSE ApiKeys) :
       \E w \in {PeerWire(CurFrames, 1 - client, key)} :
       \E rl \in WireRbufs, cuts \in CurCuts :
          /\ hs = [client |-> client, frames |-> CurFrames, key |-> key, wire |-> w,
                   nchunks |-> Cardinality(cuts) + 1, cutoff |-> 0,
                   nfr |-> 0, cur |-> 0, curL |-> 0,
                   got |-> <<>>, hdrs |-> <<>>, failed |-> FALSE, failedBy |-> NoCall,
                   skipped |-> FALSE, last |-> NoCall]
          /\ cs = [rd |-> NewConn(client, rl)]
          /\ tp = [rd |-> NewNet(SplitFrom(w, cuts, 0), TRUE)]
    /\ pc = Unused /\ mu = Unused /\ cc = Unused /\ cx = Unused

(* The call latched a header: a header call or a Read with no frame current *)
(* that did not fail, or failed for the opcode of the header it latched.    *)
CurLatched(r, op) ==
    /\ r.err \in {ErrNil, ErrInvalidFrame}
    /\ \/ op \in {"ReadFrameHeader", "ReadRawFrameHeader"}
       \/ op = "Read" /\ cs.rd.more = 0

CurDone(r, op, plen, data, l) ==
    /\ cs' = [cs EXCEPT !.rd = r.s.c]
    /\ tp' = [tp EXCEPT !.rd = r.s.t]
    /\ hs' = [ApiHist(r, op, plen, data, <<>>) EXCEPT
                 !.nfr = IF CurLatched(r, op) THEN @ + 1 ELSE @,
                 !.curL = IF CurLatched(r, op)
                          THEN (IF r.err = ErrNil THEN l ELSE -1)
                          ELSE IF op # "Read" /\ cs.rd.more # 0 THEN -1 ELSE @,
                 !.cur = IF CurLatched(r, op) THEN Len(data) ELSE @ + Len(data),
                 !.skipped = @ \/ (op = "ReadRawFrameHeader" /\ cs.rd.more # 0)]
    /\ UNCHANGED <<scn, pc, mu, cc, cx>>

CurRead ==
    /\ ApiCanCall
    /\ \E plen \in CurChunks :
          \E r \in {Read([c |-> cs.rd, t |-> tp.rd], plen)} :
             CurDone(r, "Read", plen, r.data, r.s.c.header[2] % 128)

CurReadFrame ==
    /\ ApiCanCall
    /\ \E r \in {ReadFrame([c |-> cs.rd, t |-> tp.rd], ApiFramePlen)} :
          CurDone(r, "ReadFrame", ApiFramePlen, r.data, 0)

CurReadFrameHeader ==
    /\ ApiCanCall
    /\ \E r \in {ReadFrameHeader([c |-> cs.rd, t |-> tp.rd])} :
          CurDone(r, "ReadFrameHeader", 0, <<>>, r.l)

CurReadRawFrameHeader ==
    /\ ApiCanCall
    /\ \E r \in {ReadRawFrameHeader([c |-> cs.rd, t |-> tp.rd])} :
          CurDone(r, "ReadRawFrameHeader", 0, <<>>, r.l)

NextCursors == CurRead \/ CurReadFrame \/ CurReadFrameHeader \/ CurReadRawFrameHeader

SpecCursors == InitCursors /\ [][NextCursors]_vars

(* A call has returned. *)
CurReturned == scn = "cursors" /\ hs.last.op # "none"

(* C22: at each return from Read, ReadFrame, ReadFrameHeader or             *)
(* ReadRawFrameHeader the read cursors satisfy                              *)
(* 0 <= st <= i <= end <= len(rbuf).                                        *)
C22_CursorOrder ==
    CurReturned =>
        (0 <= cs.rd.st /\ cs.rd.st <= cs.rd.i /\ cs.rd.i <= cs.rd.end
         /\ cs.rd.end <= cs.rd.rlen)

(* What the code keeps of it: 0 <= i, 0 <= end <= len(rbuf), st <= i.       *)
C22_CursorBounds ==
    CurReturned =>
        (0 <= cs.rd.i /\ cs.rd.st <= cs.rd.i /\ 0 <= cs.rd.end /\ cs.rd.end <= cs.rd.rlen)

(* All 23 payload bytes have been read, with no payload skipped. *)
C22_Witness ==
    /\ CurReturned /\ ~hs.skipped /\ hs.nfr = 2 /\ Len(hs.got) = 23
    /\ hs.last.op = "Read" /\ hs.last.plen = 16

(* C23: at every return from a read operation with a frame current,         *)
(* i - start is the number of payload bytes of that frame already handed to *)
(* the caller, also after compaction has made start negative.               *)
C23_PhaseCursor ==
    (CurReturned /\ hs.nfr > 0) => cs.rd.i - cs.rd.start = hs.cur

(* The same for a caller that never asks for a header while payload of the  *)
(* current frame is unread.                                                 *)
C23_PhaseCursorNoSkip ==
    (CurReturned /\ hs.nfr > 0 /\ ~hs.skipped) => cs.rd.i - cs.rd.start = hs.cur

(* Compaction has made start negative in the middle of the 20-byte frame.   *)
C23_Witness ==
    /\ CurReturned /\ hs.nfr = 2 /\ ~hs.skipped
    /\ cs.rd.start < 0 /\ cs.rd.more > 0 /\ hs.cur > 0
    /\ hs.last.op = "Read" /\ hs.last.n > 0

-----------------------------------------------------------------------------
(* Scenario "hdr": the peer writes Text "abc" without FIN and a 126-byte    *)
(* Continuation with FIN, whose length takes the 16-bit form.  The caller   *)
(* reads frame by frame: ReadFrameHeader, then ReadFrame until the frame's  *)
(* payload is consumed.  The transport cuts the stream at any one place, or *)
(* at any two places among its first HdrSpan bytes.                         *)

HdrBigLen == 126
HdrFramePlen == 64
HdrSpan == 18

HdrFrames == <<Frame(FrameText, FALSE, Abc), Frame(FrameContinue, TRUE, Msg(3, HdrBigLen))>>

HdrHeaders == [k \in 1..Len(HdrFrames) |->
                  [op |-> HdrFrames[k].op, fin |-> HdrFrames[k].final,
                   l |-> Len(HdrFrames[k].payload)]]

InitHdr ==
    /\ scn = "hdr"
    /\ \E client \in {0, 1} :
       \E key \in (IF client = 1 THEN {NoKey} ELSE ApiKeys) :
       \E w \in {PeerWire(HdrFrames, 1 - client, key)} :
       \E rl \in WireRbufs, cuts \in CutSets(Len(w), 1) \cup CutSets(HdrSpan, 2) :
          /\ hs = [client |-> client, frames |-> HdrFrames, key |-> key, wire |-> w,
                   nchunks |-> Cardinality(cuts) + 1, cutoff |-> 0, cuts |-> cuts,
                   got |-> <<>>, hdrs |-> <<>>, failed |-> FALSE, failedBy |-> NoCall,
                   skipped |-> FALSE, last |-> NoCall]
          /\ cs = [rd |-> NewConn(client, rl)]
          /\ tp = [rd |-> NewNet(SplitFrom(w, cuts, 0), TRUE)]
    /\ pc = Unused /\ mu = Unused /\ cc = Unused /\ cx = Unused

HdrReadFrameHeader ==
    /\ ApiCanCall /\ scn = "hdr" /\ cs.rd.more = 0 /\ ~hs.failed
    /\ \E r \in {ReadFrameHeader([c |-> cs.rd, t |-> tp.rd])} :
          ApiDone(r, "ReadFrameHeader", 0, <<>>, [op |-> r.op, fin |-> r.fin, l |-> r.l])

HdrReadFrame ==
    /\ ApiCanCall /\ scn = "hdr" /\ cs.rd.more # 0 /\ ~hs.failed
    /\ \E r \in {ReadFrame([c |-> cs.rd, t |-> tp.rd], HdrFramePlen)} :
          ApiDone(r, "ReadFrame", HdrFramePlen, r.data, <<>>)

NextHdr == HdrReadFrameHeader \/ HdrReadFrame

SpecHdr == InitHdr /\ [][NextHdr]_vars

(* C24: readFrameHeader latches a header only when all of its bytes lie in  *)
(* rbuf[st, end), so however the transport splits the stream the (opcode,   *)
(* fin, length) returned are those of the frames written, in order.         *)
C24_HeaderComplete ==
    scn = "hdr" =>
        /\ IsPrefix(hs.hdrs, HdrHeaders)
        /\ (hs.last.op = "ReadFrameHeader" /\ hs.last.err = ErrNil) =>
               (0 <= cs.rd.st /\ cs.rd.start <= cs.rd.end)

(* The same for a server, which reads masked frames. *)
C24_HeaderCompleteMasked ==
    (scn = "hdr" /\ hs.client = 0) =>
        /\ IsPrefix(hs.hdrs, HdrHeaders)
        /\ (hs.last.op = "ReadFrameHeader" /\ hs.last.err = ErrNil) =>
               (0 <= cs.rd.st /\ cs.rd.start <= cs.rd.end)

(* A server has returned both headers and all 129 payload bytes from a      *)
(* stream cut between the two bytes of the second frame's 16-bit length.    *)
C24_Witness ==
    /\ scn = "hdr" /\ hs.client = 0 /\ hs.cuts = {12}
    /\ hs.hdrs = HdrHeaders /\ Len(hs.got) = Len(Abc) + HdrBigLen

-----------------------------------------------------------------------------
(* Scenario "sentinel": Text "abc" and a 5-byte Binary frame, read with     *)
(* ReadFrameHeader, ReadFrame and AppendReadFrame (into an empty slice);    *)
(* the transport's stream ends after the last frame or EofCutoffs bytes     *)
(* before.                                                                  *)

InitSentinel ==
    \E client \in {0, 1}, cutoff \in EofCutoffs :
        InitApi("sentinel", <<Frame(FrameText, TRUE, Abc), Frame(FrameBinary, TRUE, EofPayload)>>,
                client, cutoff, FALSE)

SentAppendReadFrame ==
    /\ ApiCanCall
    /\ \E r \in {AppendReadFrame([c |-> cs.rd, t |-> tp.rd])} :
          ApiDone(r, "AppendReadFrame", cs.rd.more, r.data, <<>>)

NextSentinel == ApiReadFrame \/ SentAppendReadFrame \/ ApiReadFrameHeader

SpecSentinel == InitSentinel /\ [][NextSentinel]_vars

(* The last call was a ReadFrame or AppendReadFrame that returned io.EOF. *)
SentEof ==
    /\ scn = "sentinel" /\ hs.last.op \in {"ReadFrame", "AppendReadFrame"}
    /\ hs.last.err = ErrEOF

(* C25: ReadFrame and AppendReadFrame return io.EOF only when the current   *)
(* frame's payload is consumed: more = 0 after the call.                    *)
C25_EofOnlyAtFrameEnd == SentEof => cs.rd.more = 0

(* The same when the transport's stream ends after the last frame and the   *)
(* caller never asks for a header while payload is unread.                  *)
C25_EofOnlyAtFrameEndWhole == (SentEof /\ hs.cutoff = 0 /\ ~hs.skipped) => cs.rd.more = 0

(* The claim for a caller that never asks for a header while payload is     *)
(* unread.                                                                  *)
C25_EofOnlyAtFrameEndNoSkip == (SentEof /\ ~hs.skipped) => cs.rd.more = 0

(* AppendReadFrame has returned the whole 5-byte payload with io.EOF. *)
C25_Witness ==
    /\ SentEof /\ hs.last.op = "AppendReadFrame" /\ hs.last.data = EofPayload
    /\ cs.rd.more = 0 /\ ~hs.skipped

-----------------------------------------------------------------------------
(* The last call was a Read or ReadFrame of the "cursors" scenario, on a     *)
(* frame whose header was accepted.                                         *)
CurPayloadCall ==
    CurReturned /\ hs.nfr > 0 /\ hs.curL >= 0 /\ hs.last.op \in {"Read", "ReadFrame"}

(* The payload bytes delivered of the current frame plus more make the      *)
(* length its header gave, and a call on a current frame took from more     *)
(* what it delivered.                                                       *)
CurAccount ==
    /\ hs.cur + cs.rd.more = hs.curL
    /\ hs.last.more0 # 0 => hs.last.more1 = hs.last.more0 - hs.last.n

(* C26: at every return from Read or ReadFrame, the payload bytes delivered *)
(* so far of the current data frame plus more equal the length L its header *)
(* reported, on the buffered and on the direct path; each call decreases    *)
(* more by the number of bytes it delivered.                                *)
C26_DeliveredPlusMore == CurPayloadCall => CurAccount

(* The same for a caller that never asks for a header while payload of the  *)
(* current frame is unread.                                                 *)
C26_DeliveredPlusMoreNoSkip == (CurPayloadCall /\ ~hs.skipped) => CurAccount

(* A Read with a 16-byte buffer has taken 16 bytes of the 20-byte frame     *)
(* straight from the transport: i is beyond end.                            *)
C26_Witness ==
    /\ CurPayloadCall /\ ~hs.skipped /\ hs.curL = 20
    /\ hs.last.op = "Read" /\ hs.last.n = 16 /\ cs.rd.more = 4 /\ cs.rd.i > cs.rd.end

-----------------------------------------------------------------------------
(* Scenario "pong": the peer writes Text "abc", a Pong and Binary "de".     *)
(* The Pong's payload is empty, two bytes or PongBigLen bytes.  The         *)
(* transport cuts the stream at any one place, or at any two places among   *)
(* its first PongSpan bytes, which hold the first frame, the Pong's header  *)
(* and the start of its payload.  The caller reads with Read, ReadFrame and *)
(* ReadFrameHeader, and asks for a header only when the current frame's     *)
(* payload is consumed; it stops at the first call that fails.              *)

PongBigLen == 125
PongSpan == 20

PongPayloads == {<<>>, <<1, 2>>, Msg(3, PongBigLen)}

PongData == <<Frame(FrameText, TRUE, Abc), Frame(FrameBinary, TRUE, De)>>

PongHeaders == [k \in 1..Len(PongData) |->
                   [op |-> PongData[k].op, fin |-> PongData[k].final,
                    l |-> Len(PongData[k].payload)]]

InitPong ==
    /\ scn = "pong"
    /\ \E client \in {0, 1}, pp \in PongPayloads :
       \E key \in (IF client = 1 THEN {NoKey} ELSE ApiKeys) :
       \E fr \in {<<PongData[1], Frame(FramePong, TRUE, pp), PongData[2]>>} :
       \E w \in {PeerWire(fr, 1 - client, key)} :
       \E rl \in WireRbufs, cuts \in CutSets(Len(w), 1) \cup CutSets(PongSpan, 2) :
          /\ hs = [client |-> client, frames |-> fr, key |-> key, wire |-> w,
                   nchunks |-> Cardinality(cuts) + 1, cutoff |-> 0, cuts |-> cuts,
                   pong |-> Len(pp), rl |-> rl,
                   got |-> <<>>, hdrs |-> <<>>, failed |-> FALSE, failedBy |-> NoCall,
                   skipped |-> FALSE, last |-> NoCall]
          /\ cs = [rd |-> NewConn(client, rl)]
          /\ tp = [rd |-> NewNet(SplitFrom(w, cuts, 0), TRUE)]
    /\ pc = Unused /\ mu = Unused /\ cc = Unused /\ cx = Unused

PongCanCall == ApiCanCall /\ scn = "pong" /\ ~hs.failed

PongRead == PongCanCall /\ ApiRead

PongReadFrame == PongCanCall /\ cs.rd.more # 0 /\ ApiReadFrame

PongReadFrameHeader == PongCanCall /\ cs.rd.more = 0 /\ ApiReadFrameHeader

NextPong == PongRead \/ PongReadFrame \/ PongReadFrameHeader

SpecPong == InitPong /\ [][NextPong]_vars

(* What the caller sees is what it would see had the Pong not been sent:    *)
(* the payload bytes are those of "abc" then "de", the headers returned are *)
(* those of the two data frames in order (Read may have read a frame's      *)
(* header itself), the only call to fail is the one that finds the end of   *)
(* the stream after "de", and nothing has been written to the transport.    *)
PongIgnored ==
    /\ IsPrefix(hs.got, Abc \o De)
    /\ hs.hdrs \in {<<>>, <<PongHeaders[1]>>, <<PongHeaders[2]>>, PongHeaders}
    /\ hs.failed => (hs.failedBy.err = ErrEOF /\ hs.got = Abc \o De)
    /\ tp.rd.tx = <<>>

(* C27: a Pong received between two data frames is ignored, whatever its    *)
(* payload length and however the transport splits its bytes: the Reads     *)
(* deliver the same bytes and ReadFrameHeader returns the same headers as   *)
(* without it, and nothing is written to the transport.                     *)
C27_PongIgnored == scn = "pong" => PongIgnored

(* The same for a Pong without payload. *)
C27_PongIgnoredEmpty == (scn = "pong" /\ hs.pong = 0) => PongIgnored

(* Both data frames were read in full past a Pong with a two-byte payload   *)
(* that the transport delivered in a read of its own.                       *)
C27_Witness ==
    /\ scn = "pong" /\ hs.pong = 2 /\ hs.nchunks = 3
    /\ hs.got = Abc \o De /\ hs.hdrs = PongHeaders /\ ~hs.failed
    /\ tp.rd.tx = <<>> /\ tp.rd.rx = <<>>

-----------------------------------------------------------------------------
(* Scenario "declen": ParseLen applied to a header whose length field       *)
(* carries L in the 16-bit or the 64-bit form although a shorter form would *)
(* hold it.  The header's two bytes stand at any of DecStarts in b, the     *)
(* length bytes follow them, and b ends with the length bytes or DecTail    *)
(* bytes later.                                                             *)

DecSmall == 12
DecTail == 3

DecLens16 == (0..DecSmall) \cup {100, maxLen7}
DecLens64 == DecLens16 \cup {maxLen7 + 1, 255, 256, 1000, maxLen16 - 1, maxLen16}
DecStarts == {0, 5}

DecHeader(form, mbit) == <<finbit + FrameBinary, (mbit * masked) + (IF form = 16 THEN len16 ELSE len64)>>

InitDec ==
    /\ scn = "declen"
    /\ \E form \in {16, 64}, mbit \in {0, 1}, at \in DecStarts, tail \in {0, DecTail} :
       \E L \in (IF form = 16 THEN DecLens16 ELSE DecLens64) :
          /\ hs = [L |-> L, form |-> form, st |-> at + 2, tail |-> tail,
                   h |-> DecHeader(form, mbit), pc |-> "new", res |-> [l |-> 0, i |-> 0]]
          /\ cs = [c |-> [NewConn(0, 0) EXCEPT
                            !.rdata = [j \in 1..at |-> 255] \o DecHeader(form, mbit)
                                      \o (IF form = 16 THEN BE16(L) ELSE BE64(L))
                                      \o [j \in 1..tail |-> 255]]]
    /\ tp = Unused /\ pc = Unused /\ mu = Unused /\ cc = Unused /\ cx = Unused

DecParseLen ==
    /\ scn = "declen" /\ hs.pc = "new"
    /\ hs' = [hs EXCEPT !.pc = "done",
                        !.res = ParseLen(hs.h, cs.c, Len(cs.c.rdata), hs.st)]
    /\ UNCHANGED <<scn, cs, tp, pc, mu, cc, cx>>

NextDec == DecParseLen

SpecDec == InitDec /\ [][NextDec]_vars

(* C28: ParseLen decodes a length carried in a longer form than it needs    *)
(* (L <= 125 in the 16-bit or the 64-bit form, L <= 65535 in the 64-bit     *)
(* form) to L, with the index advanced by 2 or by 8, and without error.     *)
C28_NonMinimalAccepted ==
    (scn = "declen" /\ hs.pc = "done") =>
        /\ hs.res.l = hs.L
        /\ hs.res.i = hs.st + (IF hs.form = 16 THEN 2 ELSE 8)

(* The length 125 was decoded from the 64-bit form. *)
C28_Witness ==
    /\ scn = "declen" /\ hs.pc = "done" /\ hs.form = 64 /\ hs.L = maxLen7
    /\ hs.res = [l |-> maxLen7, i |-> hs.st + 8]

-----------------------------------------------------------------------------
(* Scenario "rsv": the peer writes Text "abc", a Ping and Binary "de", each *)
(* with the reserved bits rsv (RSV1 = 4, RSV2 = 2, RSV3 = 1) in its first   *)
(* byte; the transport delivers the stream whole or cut at one of RsvCuts.  *)
(* The Conn reads with Read, ReadFrame and ReadFrameHeader, and writes with *)
(* WriteFrame (once, with the same bits set in the opcode it is given) and  *)
(* CloseWriter.                                                             *)

RsvBits == {0, 2, 7}
RsvCuts == {{}, {7}, {12}}
RsvPing == <<1, 2>>

RsvFrames == <<Frame(FrameText, TRUE, Abc), Frame(FramePing, TRUE, RsvPing),
               Frame(FrameBinary, TRUE, De)>>

(* The peer's encoding of f with the reserved bits rsv set. *)
RsvPeerFrame(f, client, key, rsv) ==
    [PeerFrame(f, client, key) EXCEPT ![1] = @ + (16 * rsv)]

RECURSIVE RsvWire(_, _, _, _)
RsvWire(frames, client, key, rsv) ==
    IF frames = <<>> THEN <<>>
    ELSE RsvPeerFrame(Head(frames), client, key, rsv) \o RsvWire(Tail(frames), client, key, rsv)

(* The reserved bits of the frame that starts with byte b. *)
Rsv(b) == (b \div 16) % 8

InitRsv ==
    /\ scn = "rsv"
    /\ \E client \in {0, 1}, rsv \in RsvBits :
       \E key \in (IF client = 1 THEN {NoKey} ELSE ApiKeys) :
       \E w \in {RsvWire(RsvFrames, 1 - client, key, rsv)} :
       \E rl \in WireRbufs, cuts \in RsvCuts :
          /\ hs = [client |-> client, frames |-> RsvFrames, key |-> key, wire |-> w,
                   nchunks |-> Cardinality(cuts) + 1, cutoff |-> 0, rsv |-> rsv,
                   wrote |-> FALSE,
                   got |-> <<>>, hdrs |-> <<>>, failed |-> FALSE, failedBy |-> NoCall,
                   skipped |-> FALSE, last |-> NoCall]
          /\ cs = [rd |-> NewConn(client, rl)]
          /\ tp = [rd |-> NewNet(SplitFrom(w, cuts, 0), TRUE)]
    /\ pc = Unused /\ mu = Unused /\ cc = Unused /\ cx = Unused

RsvWriteFrame ==
    /\ scn = "rsv" /\ ~hs.wrote
    /\ \E key \in RoleKeys(hs.client) :
          \E w \in {WriteFrame([c |-> cs.rd, t |-> tp.rd], By, FrameBinary + (16 * hs.rsv),
                               TRUE, key)} :
             /\ cs' = [cs EXCEPT !.rd = w.s.c]
             /\ tp' = [tp EXCEPT !.rd = w.s.t]
             /\ hs' = [hs EXCEPT !.wrote = TRUE]
    /\ UNCHANGED <<scn, pc, mu, cc, cx>>

RsvCloseWriter ==
    /\ scn = "rsv" /\ ~cs.rd.writerClosed
    /\ \E key \in RoleKeys(hs.client) :
          \E w \in {CloseWriter([c |-> cs.rd, t |-> tp.rd], StatusOK, key)} :
             /\ cs' = [cs EXCEPT !.rd = w.s.c]
             /\ tp' = [tp EXCEPT !.rd = w.s.t]
    /\ UNCHANGED <<scn, hs, pc, mu, cc, cx>>

NextRsv == NextApi \/ RsvWriteFrame \/ RsvCloseWriter

SpecRsv == InitRsv /\ [][NextRsv]_vars

(* Every Write the Conn has made on the transport starts with a byte whose  *)
(* reserved bits are zero.                                                  *)
RsvZeroOnSend == \A k \in 1..Len(tp.rd.tx) : Rsv(tp.rd.tx[k][1]) = 0

(* C29: every frame the Conn puts on the transport, the Pong echoed for a   *)
(* received Ping included, has RSV1-3 zero, whatever reserved bits the      *)
(* received frames carried.                                                 *)
C29_RsvZeroOnSend == scn = "rsv" => RsvZeroOnSend

(* The same for the frames WriteFrame and CloseWriter build. *)
C29_RsvZeroOnWrite ==
    scn = "rsv" => \A k \in 1..Len(tp.rd.tx) :
                      Opcode(tp.rd.tx[k]) # FramePong => Rsv(tp.rd.tx[k][1]) = 0

(* The Conn has received all three frames with all reserved bits set and,   *)
(* asking for no header while payload was unread, has echoed the Ping and   *)
(* written a data frame and a Close frame.                                  *)
C29_Witness ==
    /\ scn = "rsv" /\ hs.rsv = 7 /\ ~hs.skipped /\ hs.got = Abc \o De
    /\ Len(tp.rd.tx) = 3 /\ hs.wrote /\ cs.rd.writerClosed
    /\ \E k \in 1..3 : Opcode(tp.rd.tx[k]) = FramePong

-----------------------------------------------------------------------------
(* The watcher of the ReadContext call in progress is installed. *)
CancelWatcherInstalled ==
    (scn = "cancel" /\ cx.pc = "read") => cx.watch[cx.call] # "none"

(* The last ReadContext call has returned without error. *)
CancelReturnedNormally ==
    scn = "cancel" /\ cx.pc = "idle" /\ cx.call >= 1 /\ cx.err = ErrNil

(* C30: ReadContext installs the watcher before its transport read starts   *)
(* and dismisses it when the read completes: once a call has returned       *)
(* normally, no watcher of that call waits for the context's cancellation  *)
(* or has set the read deadline.                                            *)
C30_WatcherScoped ==
    /\ CancelWatcherInstalled
    /\ CancelReturnedNormally => cx.watch[cx.call] \notin {"select", "fired"}

(* A call has returned the peer's frame without error, its context is       *)
(* cancelled, and the call's watcher has set the read deadline.             *)
C30_Witness ==
    /\ CancelReturnedNormally /\ cx.n = Len(Abc)
    /\ cx.ctx[cx.call] = "done" /\ cx.watch[cx.call] = "fired" /\ tp.rd.dl

-----------------------------------------------------------------------------
(* Goroutine g is inside the transport Write of the Pong that its read call *)
(* answers a Ping with: the Write has begun and has not returned.           *)
ConcReaderInWrite(g) ==
    /\ scn = "conc" /\ g \in cc.writing
    /\ cc.op[g] \in {"Read", "ReadFrame", "ReadFrameHeader"}

(* C31: no goroutine executing a read operation holds the read mutex while  *)
(* it is blocked in a transport Write, so that a second Read on the Conn    *)
(* can still acquire the read mutex.                                        *)
C31_ReadLockFreeInWrite ==
    \A g \in G : ConcReaderInWrite(g) => mu["rmu"] # g

(* A Read is inside the transport Write of its Pong, and a second Read has  *)
(* been called and waits for the read mutex.                                *)
C31_Witness ==
    \E g, h \in G :
        /\ g # h /\ ConcReaderInWrite(g) /\ cc.op[g] = "Read" /\ mu["wmu"] = g
        /\ cc.op[h] = "Read" /\ pc[h] # <<>> /\ Head(pc[h]) = "rmu.Lock"

-----------------------------------------------------------------------------
(* Scenario "term": the peer writes Text "abc" and a Binary frame of        *)
(* TermLen bytes, and its stream ends TermCutoffs bytes before the end of   *)
(* the second frame, inside the payload; from then on every transport read  *)
(* returns (0, io.EOF).  The caller calls Read and ReadFrame with buffers   *)
(* of TermChunks bytes: 8 is below len(rbuf) - 16 for every rbuf, 16 is not *)
(* for an rbuf of 32 bytes.  It asks for a header only when the current     *)
(* frame's payload is consumed.                                             *)

TermLen == 24
TermChunks == {8, 16}
TermCutoffs == {4, 20}
TermCuts == {{}, {9}, {12}}

TermFrames == <<Frame(FrameText, TRUE, Abc), Frame(FrameBinary, TRUE, Msg(2, TermLen))>>

InitTerm ==
    /\ scn = "term"
    /\ \E client \in {0, 1}, cutoff \in TermCutoffs :
       \E key \in (IF client = 1 THEN {NoKey} ELSE ApiKeys) :
       \E w0 \in {PeerWire(TermFrames, 1 - client, key)} :
       \E w \in {Take(w0, Len(w0) - cutoff)} :
       \E rl \in WireRbufs, cuts \in TermCuts :
          /\ hs = [client |-> client, frames |-> TermFrames, key |-> key, wire |-> w,
                   nchunks |-> Cardinality(cuts) + 1, cutoff |-> cutoff, rl |-> rl,
                   got |-> <<>>, hdrs |-> <<>>, failed |-> FALSE, failedBy |-> NoCall,
                   skipped |-> FALSE, last |-> NoCall]
          /\ cs = [rd |-> NewConn(client, rl)]
          /\ tp = [rd |-> NewNet(SplitFrom(w, cuts, 0), TRUE)]
    /\ pc = Unused /\ mu = Unused /\ cc = Unused /\ cx = Unused

TermRead ==
    /\ ApiCanCall /\ scn = "term"
    /\ \E plen \in TermChunks :
          \E r \in {Read([c |-> cs.rd, t |-> tp.rd], plen)} :
             ApiDone(r, "Read", plen, r.data, <<>>)

TermReadFrame ==
    /\ ApiCanCall /\ scn = "term"
    /\ \E plen \in TermChunks :
          \E r \in {ReadFrame([c |-> cs.rd, t |-> tp.rd], plen)} :
             ApiDone(r, "ReadFrame", plen, r.data, <<>>)

TermReadFrameHeader == scn = "term" /\ cs.rd.more = 0 /\ ApiReadFrameHeader

NextTerm == TermRead \/ TermReadFrame \/ TermReadFrameHeader

SpecTerm == InitTerm /\ [][NextTerm]_vars

(* The last call was a Read or ReadFrame. *)
TermPayloadCall == scn = "term" /\ hs.last.op \in {"Read", "ReadFrame"}

(* C32: every Read and ReadFrame call terminates, also when the transport   *)
(* has reached the end of its stream inside a data frame's payload and      *)
(* returns (0, io.EOF) on every read, on the buffered and on the direct     *)
(* path.                                                                    *)
C32_ReadTerminates == TermPayloadCall => hs.last.err # ErrHang

(* The same for a call that asks for fewer than len(rbuf) - 16 bytes. *)
C32_ReadTerminatesBuffered ==
    (TermPayloadCall /\ hs.last.plen < cs.rd.rlen - directReadSlack) => hs.last.err # ErrHang

(* A ReadFrame that asked for 16 bytes from a Conn with a 32-byte rbuf      *)
(* after the transport had given the last byte of the cut stream, in the    *)
(* middle of the second frame's payload.                                    *)
C32_Witness ==
    /\ TermPayloadCall /\ hs.last.op = "ReadFrame" /\ hs.last.plen = 16
    /\ cs.rd.rlen = minReadBufSize /\ tp.rd.rx = <<>> /\ hs.last.more0 > 0
    /\ hs.last.n = 0 /\ Len(hs.got) = Len(Abc) + TermLen - hs.cutoff

-----------------------------------------------------------------------------
(* Scenario "mixed": the peer writes Text "abc" and Binary "de", each with  *)
(* its MASK bit set (and the key of ApiKeys applied) or clear.  The reader  *)
(* is of either role, and the transport cuts the stream at up to MaxCuts    *)
(* places.                                                                  *)

MixedFrames == <<Frame(FrameText, TRUE, Abc), Frame(FrameBinary, TRUE, De)>>

InitMixed ==
    \E client \in {0, 1}, m1 \in {0, 1}, m2 \in {0, 1}, key \in ApiKeys :
        InitApiWire("mixed", <<m1, m2>>, client, key,
                    PeerFrame(MixedFrames[1], m1, key) \o PeerFrame(MixedFrames[2], m2, key),
                    0, FALSE)

SpecMixed == InitMixed /\ [][NextApi]_vars

(* The bytes delivered are the payload bytes as they were on the wire for   *)
(* an unmasked frame and as the peer masked them for a masked one: "abc"    *)
(* then "de".                                                               *)
MixedDelivered == IsPrefix(hs.got, Abc \o De)

(* C33: the payload of a frame whose MASK bit is clear is delivered byte    *)
(* for byte as it was on the wire, also when an earlier frame was masked    *)
(* with a non-zero key (for a caller that asks for no header while payload  *)
(* is unread, so that what it is given is the payload of the two frames).   *)
C33_UnmaskedVerbatim == (scn = "mixed" /\ ~hs.skipped) => MixedDelivered

(* The same when the second frame is masked or the first is not. *)
C33_UnmaskedVerbatimSameKey ==
    (scn = "mixed" /\ ~hs.skipped /\ ~(hs.frames[1] = 1 /\ hs.frames[2] = 0)) => MixedDelivered

(* A masked frame and then an unmasked frame were read to the end. *)
C33_Witness ==
    /\ scn = "mixed" /\ ~hs.skipped /\ hs.frames = <<1, 0>>
    /\ Len(hs.got) = Len(Abc) + Len(De) /\ SubSeq(hs.got, 1, Len(Abc)) = Abc
    /\ cs.rd.more = 0 /\ ~hs.failed

-----------------------------------------------------------------------------
(* Scenario "skip": the peer writes Text "abc", a Binary frame of SkipLen   *)
(* bytes and Text "de"; the transport delivers the stream whole or cut at   *)
(* one of SkipCuts.  The caller calls Read, ReadFrameHeader and             *)
(* ReadRawFrameHeader in any order.  The harness notes the first header     *)
(* call made while payload was unread: whether the bytes to skip were all   *)
(* in rbuf, what the call returned, the frame that follows on the wire, and *)
(* the bytes the Reads deliver afterwards.                                  *)

SkipLen == 20
SkipChunks == {2, 8}
SkipCuts == {{}, {12}, {20}, {37}}

SkipFrames == <<Frame(FrameText, TRUE, Abc), Frame(FrameBinary, TRUE, Msg(2, SkipLen)),
                Frame(FrameText, TRUE, De)>>

NoSkip == [more |-> 0, buffered |-> FALSE, next |-> 0, err |-> ErrNil,
           hdr |-> [op |-> 0, fin |-> FALSE, l |-> 0]]

InitSkip ==
    /\ scn = "skip"
    /\ \E client \in {0, 1} :
       \E key \in (IF client = 1 THEN {NoKey} ELSE ApiKeys) :
       \E w \in {PeerWire(SkipFrames, 1 - client, key)} :
       \E rl \in WireRbufs, cuts \in SkipCuts :
          /\ hs = [client |-> client, frames |-> SkipFrames, key |-> key, wire |-> w,
                   nchunks |-> Cardinality(cuts) + 1, cutoff |-> 0,
                   nfr |-> 0, nskip |-> 0, skip |-> NoSkip, after |-> <<>>,
                   got |-> <<>>, hdrs |-> <<>>, failed |-> FALSE, failedBy |-> NoCall,
                   skipped |-> FALSE, last |-> NoCall]
          /\ cs = [rd |-> NewConn(client, rl)]
          /\ tp = [rd |-> NewNet(SplitFrom(w, cuts, 0), TRUE)]
    /\ pc = Unused /\ mu = Unused /\ cc = Unused /\ cx = Unused

(* The call is a header call made while payload is unread. *)
SkipIsSkip(op) == op # "Read" /\ cs.rd.more # 0

(* The call read a header and did not fail. *)
SkipLatched(r, op) == r.err = ErrNil /\ (op # "Read" \/ cs.rd.more = 0)

SkipDone(r, op, plen, data, hdr) ==
    /\ cs' = [cs EXCEPT !.rd = r.s.c]
    /\ tp' = [tp EXCEPT !.rd = r.s.t]
    /\ hs' = [ApiHist(r, op, plen, data, <<>>) EXCEPT
                 !.nfr = IF SkipLatched(r, op) THEN @ + 1 ELSE @,
                 !.nskip = IF SkipIsSkip(op) THEN @ + 1 ELSE @,
                 !.skip = IF SkipIsSkip(op) /\ hs.nskip = 0
                          THEN [more |-> cs.rd.more,
                                buffered |-> cs.rd.i + cs.rd.more <= cs.rd.end,
                                next |-> hs.nfr + 1, err |-> r.err, hdr |-> hdr]
                          ELSE @,
                 !.after = IF hs.nskip >= 1 THEN @ \o data ELSE @,
                 !.skipped = @ \/ SkipIsSkip(op)]
    /\ UNCHANGED <<scn, pc, mu, cc, cx>>

SkipRead ==
    /\ ApiCanCall /\ scn = "skip"
    /\ \E plen \in SkipChunks :
          \E r \in {Read([c |-> cs.rd, t |-> tp.rd], plen)} :
             SkipDone(r, "Read", plen, r.data, NoSkip.hdr)

SkipReadFrameHeader ==
    /\ ApiCanCall /\ scn = "skip"
    /\ \E r \in {ReadFrameHeader([c |-> cs.rd, t |-> tp.rd])} :
          SkipDone(r, "ReadFrameHeader", 0, <<>>, [op |-> r.op, fin |-> r.fin, l |-> r.l])

SkipReadRawFrameHeader ==
    /\ ApiCanCall /\ scn = "skip"
    /\ \E r \in {ReadRawFrameHeader([c |-> cs.rd, t |-> tp.rd])} :
          SkipDone(r, "ReadRawFrameHeader", 0, <<>>, [op |-> r.op, fin |-> r.fin, l |-> r.l])

NextSkip == SkipRead \/ SkipReadFrameHeader \/ SkipReadRawFrameHeader

SpecSkip == InitSkip /\ [][NextSkip]_vars

RECURSIVE SkipPayloadFrom(_)
SkipPayloadFrom(k) ==
    IF k > Len(SkipFrames) THEN <<>> ELSE SkipFrames[k].payload \o SkipPayloadFrom(k + 1)

(* The first skip returned the header of the frame that follows on the wire *)
(* (or io.EOF after the last frame), and the Reads made since, while no     *)
(* second skip was made, delivered that frame's payload and what follows.   *)
SkipExact ==
    /\ hs.skip.next <= Len(SkipFrames) =>
          /\ hs.skip.err = ErrNil
          /\ hs.skip.hdr = [op |-> SkipFrames[hs.skip.next].op, fin |-> TRUE,
                            l |-> Len(SkipFrames[hs.skip.next].payload)]
    /\ hs.skip.next > Len(SkipFrames) => hs.skip.err = ErrEOF
    /\ IsPrefix(hs.after, SkipPayloadFrom(hs.skip.next))

(* C34: a header call made while the current frame has more > 0 unread      *)
(* payload bytes discards exactly those bytes, in rbuf or still to come     *)
(* from the transport, and returns the header of the frame that follows.    *)
C34_SkipExact == (scn = "skip" /\ hs.nskip = 1) => SkipExact

(* The same when the bytes to skip were all in rbuf at the call. *)
C34_SkipExactBuffered == (scn = "skip" /\ hs.nskip = 1 /\ hs.skip.buffered) => SkipExact

(* One byte of the second frame was read, its other bytes, all in rbuf,     *)
(* were skipped by ReadRawFrameHeader, and "de" was read.                    *)
C34_Witness ==
    /\ scn = "skip" /\ hs.nskip = 1 /\ hs.skip.buffered /\ hs.skip.more = SkipLen - 2
    /\ hs.last.op = "Read" /\ hs.after = De /\ hs.skip.next = 3

-----------------------------------------------------------------------------
(* Scenario "stopper": StopN calls of Stopper(ctx, dead), each with a       *)
(* context of its own.  For call k, cx.w[k] is where its goroutine stands:  *)
(* "select" at the first select, "check" at the second, "dead" before the   *)
(* call of dead, "fired" after it, "exit" after a return; cx.donec[k] is    *)
(* the channel and cx.stop[k] says that the stop function has returned.     *)
(* cx.first[k] notes that stop returned while the context was live, and     *)
(* cx.late[k] that dead was called after stop had returned.                 *)

StopN == 3

StopK == 1..StopN

InitStopper ==
    /\ scn = "stopper"
    /\ cx = [ctx |-> [k \in StopK |-> "live"], donec |-> [k \in StopK |-> "open"],
             w |-> [k \in StopK |-> Stopper], stop |-> [k \in StopK |-> FALSE],
             first |-> [k \in StopK |-> FALSE], late |-> [k \in StopK |-> FALSE]]
    /\ cs = Unused /\ tp = Unused /\ hs = Unused /\ pc = Unused /\ mu = Unused /\ cc = Unused

(* The context of call k is cancelled. *)
StopCtxCancel ==
    /\ scn = "stopper"
    /\ \E k \in StopK :
          /\ cx.ctx[k] = "live"
          /\ cx' = [cx EXCEPT !.ctx[k] = "done"]
    /\ UNCHANGED <<scn, cs, tp, hs, pc, mu, cc>>

(* The stop function: close(donec), and it returns. *)
StopCall ==
    /\ scn = "stopper"
    /\ \E k \in StopK :
          /\ ~cx.stop[k]
          /\ cx' = [cx EXCEPT !.donec[k] = "closed", !.stop[k] = TRUE,
                              !.first[k] = (cx.ctx[k] = "live")]
    /\ UNCHANGED <<scn, cs, tp, hs, pc, mu, cc>>

(* The first select: either case that is ready may be taken. *)
StopSelect ==
    /\ scn = "stopper"
    /\ \E k \in StopK :
          /\ cx.w[k] = "select"
          /\ \/ cx.ctx[k] = "done" /\ cx' = [cx EXCEPT !.w[k] = "check"]
             \/ cx.donec[k] = "closed" /\ cx' = [cx EXCEPT !.w[k] = "exit"]
    /\ UNCHANGED <<scn, cs, tp, hs, pc, mu, cc>>

(* The second select: return if donec is closed, go on otherwise. *)
StopCheck ==
    /\ scn = "stopper"
    /\ \E k \in StopK :
          /\ cx.w[k] = "check"
          /\ cx' = [cx EXCEPT !.w[k] = IF cx.donec[k] = "closed" THEN "exit" ELSE "dead"]
    /\ UNCHANGED <<scn, cs, tp, hs, pc, mu, cc>>

(* dead(time.Unix(1, 0)). *)
StopDead ==
    /\ scn = "stopper"
    /\ \E k \in StopK :
          /\ cx.w[k] = "dead"
          /\ cx' = [cx EXCEPT !.w[k] = "fired", !.late[k] = cx.stop[k]]
    /\ UNCHANGED <<scn, cs, tp, hs, pc, mu, cc>>

NextStopper == StopCtxCancel \/ StopCall \/ StopSelect \/ StopCheck \/ StopDead

SpecStopper == InitStopper /\ [][NextStopper]_vars

(* C35: once stop has returned the goroutine never calls the deadline       *)
(* setter, under every interleaving of cancellation, goroutine and stop;    *)
(* if stop is called before the context is cancelled the setter is never    *)
(* called at all.                                                           *)
C35_StopSilences ==
    scn = "stopper" =>
        \A k \in StopK : /\ ~cx.late[k]
                         /\ cx.first[k] => cx.w[k] \notin {"dead", "fired"}

(* The second half: stop before the cancellation keeps the setter from      *)
(* being called.                                                            *)
C35_StopBeforeCancel ==
    scn = "stopper" => \A k \in StopK : cx.first[k] => cx.w[k] \notin {"dead", "fired"}

(* A context was cancelled, stop was called afterwards and has returned,    *)
(* and the goroutine has come to its end.                                   *)
C35_Witness ==
    /\ scn = "stopper"
    /\ \E k \in StopK : /\ cx.stop[k] /\ ~cx.first[k] /\ cx.ctx[k] = "done"
                        /\ cx.w[k] \in {"fired", "exit"}

-----------------------------------------------------------------------------
(* The transport Writes begun so far that carry a Close frame. *)
ConcCloseFrames == {k \in 1..Len(cc.order) : Opcode(cc.order[k].b) = FrameClose}

(* C36: across any sequence and interleaving of Close and CloseWriter calls *)
(* on one Conn, at most one Close frame is written to the transport, and no *)
(* Write of theirs carries anything else.                                   *)
C36_OneCloseFrame ==
    scn = "conc" =>
        /\ Cardinality(ConcCloseFrames) <= 1
        /\ \A k \in 1..Len(cc.order) :
              cc.order[k].op \in {"Close", "CloseWriter"} => k \in ConcCloseFrames

(* Three goroutines have called Close or CloseWriter, both among them, all  *)
(* three calls were in progress at once and have returned, and one Close    *)
(* frame is on the wire.                                                    *)
C36_Witness ==
    /\ scn = "conc" /\ cc.ops = NumG /\ \A g \in G : pc[g] = <<>>
    /\ {cc.op[g] : g \in G} = {"Close", "CloseWriter"}
    /\ Cardinality(ConcCloseFrames) = 1 /\ cc.writing = {}

-----------------------------------------------------------------------------
(* Scenario "pingbuf": the peer writes a Ping with a payload of PbLens      *)
(* bytes and Binary "de"; the reader has an rbuf of 32 bytes or the default *)
(* one, and the transport delivers the stream whole or cut at one of        *)
(* PbCuts (inside the Ping's header, after it, inside its payload).         *)

PbMaxLen == 125
PbMidLen == 30

PbLens == {0, 2, PbMidLen, PbMaxLen}
PbCuts == {{}, {1}, {3}, {7}, {10}}

InitPingBuf ==
    /\ scn = "pingbuf"
    /\ \E client \in {0, 1}, n \in PbLens :
       \E key \in (IF client = 1 THEN {NoKey} ELSE ApiKeys) :
       \E fr \in {<<Frame(FramePing, TRUE, Msg(3, n)), Frame(FrameBinary, TRUE, De)>>} :
       \E w \in {PeerWire(fr, 1 - client, key)} :
       \E rl \in WireRbufs, cuts \in PbCuts :
          /\ hs = [client |-> client, frames |-> fr, key |-> key, wire |-> w,
                   nchunks |-> Cardinality(cuts) + 1, cutoff |-> 0, cuts |-> cuts,
                   ping |-> n, rl |-> rl,
                   got |-> <<>>, hdrs |-> <<>>, failed |-> FALSE, failedBy |-> NoCall,
                   skipped |-> FALSE, last |-> NoCall]
          /\ cs = [rd |-> NewConn(client, rl)]
          /\ tp = [rd |-> NewNet(SplitFrom(w, cuts, 0), TRUE)]
    /\ pc = Unused /\ mu = Unused /\ cc = Unused /\ cx = Unused

SpecPingBuf == InitPingBuf /\ [][NextApi]_vars

(* The Ping frame as received, with the opcode nibble rewritten to Pong. *)
PbEcho ==
    [PeerFrame(hs.frames[1], 1 - hs.client, hs.key) EXCEPT ![1] = finbit + FramePong]

(* No call has run out of rbuf's bounds (a panic), and every Write made on  *)
(* the transport carries the bytes received as the Ping frame and no other. *)
PbEchoInBounds ==
    /\ hs.last.err # ErrPanic
    /\ \A k \in 1..Len(tp.rd.tx) : tp.rd.tx[k] = PbEcho

(* C37: for an rbuf of any size >= 32 bytes and a Ping with any payload     *)
(* length 0..125, handling the Ping never accesses rbuf outside its bounds  *)
(* and never writes to the transport a byte that was not received as part   *)
(* of that Ping: rbuf[st .. i+more] lies within the filled region.          *)
C37_EchoInBounds == (scn = "pingbuf" /\ ~hs.skipped) => PbEchoInBounds

(* The same for a Ping without payload. *)
C37_EchoInBoundsEmpty == (scn = "pingbuf" /\ ~hs.skipped /\ hs.ping = 0) => PbEchoInBounds

(* A Ping with a 30-byte payload was received by a Conn with the default    *)
(* rbuf in one transport read, its echo was written, and "de" was read.      *)
C37_Witness ==
    /\ scn = "pingbuf" /\ ~hs.skipped /\ hs.ping = PbMidLen /\ hs.cuts = {}
    /\ hs.rl = 0 /\ tp.rd.tx = <<PbEcho>> /\ hs.got = De

-----------------------------------------------------------------------------
(* Scenario "conc" with WriteFrame and Close only, and with a scheduler:    *)
(* a goroutine that can take a mutex, release one, build its frame, enter   *)
(* the transport Write or close the transport does so.  The transport is    *)
(* not obliged to let a Write return (the peer may have stopped reading),   *)
(* and no goroutine is obliged to make a call.                              *)

BlockCall ==
    /\ scn = "conc" /\ cc.ops < MaxOps
    /\ \E g \in G, op \in {"WriteFrame", "Close"} :
          /\ pc[g] = <<>>
          /\ pc' = [pc EXCEPT ![g] = Prog(op)]
          /\ cc' = [cc EXCEPT !.ops = @ + 1, !.op[g] = op, !.nw[g] = 0]
    /\ UNCHANGED <<scn, cs, tp, hs, mu, cx>>

NextBlock ==
    \/ BlockCall \/ ConcLock \/ ConcUnlock \/ ConcBuild
    \/ ConcWriteBegin \/ ConcWriteEnd \/ ConcTransportClose

SpecBlock ==
    /\ InitConc /\ [][NextBlock]_vars
    /\ WF_vars(ConcLock) /\ WF_vars(ConcUnlock) /\ WF_vars(ConcBuild)
    /\ WF_vars(ConcWriteBegin) /\ WF_vars(ConcTransportClose)

(* A WriteFrame is inside its transport Write and a Close call has been     *)
(* made and has not returned.                                               *)
BlockCloseDuringWrite ==
    /\ scn = "conc"
    /\ \E g, h \in G :
          /\ g \in cc.writing /\ cc.op[g] = "WriteFrame"
          /\ cc.op[h] = "Close" /\ pc[h] # <<>>

(* C38: a Close() made while another goroutine is blocked inside            *)
(* WriteFrame's transport Write eventually closes the transport, without    *)
(* waiting for the WriteFrame to finish.                                    *)
C38_CloseUnblocksWrite == BlockCloseDuringWrite ~> cc.closed

(* While a WriteFrame is inside its transport Write, no Close call has got  *)
(* past its wmu.Lock.                                                       *)
C38_CloseWaitsForWrite ==
    scn = "conc" =>
        \A g, h \in G :
            (g \in cc.writing /\ cc.op[g] = "WriteFrame" /\ cc.op[h] = "Close" /\ pc[h] # <<>>)
                => Head(pc[h]) = "wmu.Lock"

(* A WriteFrame is inside its transport Write, the transport is open, and a *)
(* Close call waits for the write mutex.                                    *)
C38_Witness ==
    /\ BlockCloseDuringWrite /\ ~cc.closed
    /\ \E h \in G : cc.op[h] = "Close" /\ Waits(h, "wmu")

(* The Writes that the last call of the "writer" scenario added to the      *)
(* transport and that a receiver decodes as a data frame.                   *)
WrDataFramesPut ==
    {k \in (hs.last.tx0 + 1)..Len(tp.c.tx) :
        \E d \in {DecodeFrame(tp.c.tx[k])} :
           d.ok /\ d.op \in {FrameContinue, FrameText, FrameBinary}}

(* C39: once the write side has been closed by CloseWriter or Close, no     *)
(* later WriteFrame or Write call puts a data frame (Continuation, Text or  *)
(* Binary) on the transport.                                                *)
C39_NoDataAfterClose ==
    (scn = "writer" /\ hs.last.op = "WriteFrame" /\ hs.last.wc0) => WrDataFramesPut = {}

(* What the code keeps: a WriteFrame after Close, which has closed the      *)
(* transport, puts nothing on it.                                           *)
C39_NoDataAfterTransportClose ==
    (scn = "writer" /\ hs.last.op = "WriteFrame" /\ hs.last.closed0) =>
        (Len(tp.c.tx) = hs.last.tx0 /\ hs.last.err # ErrNil)

C39_Witness ==
    /\ scn = "writer" /\ hs.last.op = "WriteFrame" /\ hs.last.wc0
    /\ ~hs.last.closed0 /\ ~tp.c.wfail /\ hs.last.p = Abc
    /\ WrDataFramesPut # {}

------------------------------------------------------------------------------
(* Scenario "wstate": a Conn of either role reads Text "abc" (no FIN) and   *)
(* Continuation "de" (FIN) from a transport that delivers them in chunks,   *)
(* and between its reads it calls WriteFrame up to MaxWsWrites times and    *)
(* Close once.  hs.wr holds, for the last WriteFrame, the caller's slice    *)
(* before and after the call and the Conn as it was before it.              *)

MaxWsWrites == 2

WsCuts == {{}, {8}}
WsFrames == <<Frame(FrameText, FALSE, Abc), Frame(FrameContinue, TRUE, De)>>
WsPayloads == {<<>>, Abc}

InitWState ==
    /\ scn = "wstate"
    /\ \E client \in {0, 1} :
       \E key \in (IF client = 1 THEN {NoKey} ELSE ApiKeys) :
       \E w \in {PeerWire(WsFrames, 1 - client, key)} :
       \E rl \in WireRbufs, cuts \in WsCuts :
          /\ hs = [client |-> client, frames |-> WsFrames, key |-> key, wire |-> w,
                   nchunks |-> Cardinality(cuts) + 1, cutoff |-> 0,
                   nw |-> 0, wr |-> [p0 |-> <<>>, p1 |-> <<>>, c0 |-> NewConn(client, rl)],
                   got |-> <<>>, hdrs |-> <<>>, failed |-> FALSE, failedBy |-> NoCall,
                   skipped |-> FALSE, last |-> NoCall]
          /\ cs = [rd |-> NewConn(client, rl)]
          /\ tp = [rd |-> NewNet(SplitFrom(w, cuts, 0), TRUE)]
    /\ pc = Unused /\ mu = Unused /\ cc = Unused /\ cx = Unused

WsWriteFrame ==
    /\ scn = "wstate" /\ hs.nw < MaxWsWrites
    /\ hs.last.err \notin {ErrPanic, ErrHang}
    /\ \E p \in WsPayloads, key \in RoleKeys(hs.client) :
          \E w \in {WriteFrame([c |-> cs.rd, t |-> tp.rd], p, FrameBinary, TRUE, key)} :
             /\ cs' = [cs EXCEPT !.rd = w.s.c]
             /\ tp' = [tp EXCEPT !.rd = w.s.t]
             /\ hs' = [hs EXCEPT !.nw = @ + 1,
                                 !.wr = [p0 |-> p, c0 |-> cs.rd,
                                         p1 |-> writeFrameCaller(p, hs.client, key)],
                                 !.last = [NoCall EXCEPT !.op = "WriteFrame", !.n = w.n,
                                                         !.err = w.err,
                                                         !.tx0 = Len(tp.rd.tx),
                                                         !.closed0 = tp.rd.closed]]
    /\ UNCHANGED <<scn, pc, mu, cc, cx>>

WsClose ==
    /\ scn = "wstate" /\ ~tp.rd.closed
    /\ hs.last.err \notin {ErrPanic, ErrHang}
    /\ \E w \in {Close([c |-> cs.rd, t |-> tp.rd])} :
          /\ cs' = [cs EXCEPT !.rd = w.s.c]
          /\ tp' = [tp EXCEPT !.rd = w.s.t]
          /\ hs' = [hs EXCEPT !.last = [NoCall EXCEPT !.op = "Close", !.err = w.err]]
    /\ UNCHANGED <<scn, pc, mu, cc, cx>>

(* The caller reads until it has had an error or the whole message. *)
WsCanRead == scn = "wstate" /\ ~hs.failed /\ Len(hs.got) < Len(Abc \o De)

WsRead == WsCanRead /\ ApiRead

WsReadFrame == WsCanRead /\ ApiReadFrame

WsReadFrameHeader == WsCanRead /\ ApiReadFrameHeader

NextWState == WsRead \/ WsReadFrame \/ WsReadFrameHeader \/ WsWriteFrame \/ WsClose

SpecWState == InitWState /\ [][NextWState]_vars

(* The read-side state of a Conn. *)
ReadSide(c) ==
    <<c.rlen, c.rcap, c.rdata, c.st, c.i, c.end, c.start, c.more, c.key, c.header,
      c.readerClosed>>

====
